---- MODULE Spec2Model ----
(***************************************************************************)
(* Model of wechat_bridge.py: the scan scheduler (Listener.process_cycle), *)
(* the deduplicator (Listener._fetch_and_report), the message extractor    *)
(* (WeChatUI.extract_latest_messages), the unread detector                 *)
(* (WeChatUI.find_unread_sessions) and the command dispatcher              *)
(* (WeChatUI.set_text_and_send), all competing for WeChatUI._uia_lock.     *)
(*                                                                         *)
(* Strings are sequences of one-character strings.  The alphabet is        *)
(*   "a" "b"  letters          "1"  a decimal digit                        *)
(*   " "      a blank          "/"  a line break                           *)
(*   "N"      the literal 条新消息 (unread-count suffix), one token         *)
(*   "U"      the literal 未读 (unread marker), one token                   *)
(*   "|"      the vertical bar used as separator by the signature          *)
(*   ":"      the colon of an HH:MM timestamp                              *)
(* Time is counted in tenths of a second.                                  *)
(***************************************************************************)
EXTENDS Integers, Sequences, FiniteSets, TLC

\* ------------------------------------------------------------------ bounds
\* Horizons of the wall clock (tenths of a second): no cycle starts after it.
\* One for the runs with command threads, one for the scheduler alone.
GateHorizon == 30
ScanHorizon == 40
\* Number of command requests the inbound surface hands to the dispatcher.
MaxCommands == 1
\* Largest configured unread_max_per_round among the enumerated ones.
MaxUnread == 3
\* Length of the enumerated (long) session lists.
MaxSessions == 22
\* Number of fresh messages the chat partner may add to the message list.
MaxArrivals == 2
\* Largest java_retry_max among the configurations tried.
MaxRetry == 3
\* Number of payloads handed to the reporter.
MaxReports == 2
\* Number of GET /poll calls, and of payloads handed to the poll buffer.
MaxPolls == 2
MaxEnqueued == 3
\* Number of POST /command requests handled.
MaxRequests == 1
\* Number of main windows the application opens, one after the other.
MaxWindows == 2
\* Time after which the scheduler that can be interrupted starts no cycle.
StopHorizon == 24
\* Length of the longest path below a session item.
MaxTreeDepth == 6
\* Number of nodes of the largest subtree traversed.
MaxTreeNodes == 4
\* Time after which the origin of the clock is moved.
LiveHorizon == 8
\* Time up to which cycles start while GET requests are served.
GetsHorizon == 24
\* Distance of a test rectangle's edge from a threshold.
MaxNudge == 20
\* Number of children of the message list.
MaxItems == 7
\* Number of descendants of a message item.
MaxDescendants == 2
\* Length of the longest contact name normalized.
MaxNameLen == 4

\* ------------------------------------------------------ strings (helpers)
IsSpace(c) == c \in {" ", "/"}

IsDigit(c) == c \in {"1"}

RECURSIVE LStrip(_)
LStrip(s) == IF s # <<>> /\ IsSpace(Head(s)) THEN LStrip(Tail(s)) ELSE s

RECURSIVE RStrip(_)
RStrip(s) ==
  IF s # <<>> /\ IsSpace(s[Len(s)]) THEN RStrip(SubSeq(s, 1, Len(s) - 1)) ELSE s

\* str.strip()
Strip(s) == RStrip(LStrip(s))

\* str.splitlines(): the pieces between line breaks, no trailing empty piece
RECURSIVE SplitLines(_)
SplitLines(s) ==
  IF s = <<>> THEN <<>>
  ELSE IF \E i \in 1..Len(s) : s[i] = "/"
       THEN LET i == CHOOSE k \in 1..Len(s) :
                       s[k] = "/" /\ \A j \in 1..(k - 1) : s[j] # "/"
            IN  <<SubSeq(s, 1, i - 1)>> \o SplitLines(SubSeq(s, i + 1, Len(s)))
       ELSE <<s>>

\* re.sub(r"\s+", " ", s): every maximal run of white space becomes one blank
RECURSIVE CollapseWs(_)
CollapseWs(s) ==
  IF s = <<>> THEN <<>>
  ELSE IF IsSpace(Head(s))
       THEN <<" ">> \o CollapseWs(LStrip(s))
       ELSE <<Head(s)>> \o CollapseWs(Tail(s))

RECURSIVE RStripDigits(_)
RStripDigits(s) ==
  IF s # <<>> /\ IsDigit(s[Len(s)])
  THEN RStripDigits(SubSeq(s, 1, Len(s) - 1)) ELSE s

\* a substitution that removes nothing
StripUnreadSuffixNever(s) == s

\* re.sub(r"(?:\d+\s*条新消息|未读)$", "", s): the one match that ends the string
StripUnreadSuffix(s) ==
  IF s = <<>> THEN s
  ELSE IF s[Len(s)] = "U" THEN SubSeq(s, 1, Len(s) - 1)
  ELSE IF s[Len(s)] = "N"
       THEN LET t == RStrip(SubSeq(s, 1, Len(s) - 1))
            IN  IF t # <<>> /\ IsDigit(t[Len(t)]) THEN RStripDigits(t) ELSE s
       ELSE s

\* the list comprehension of line 461: the stripped non-blank lines
RECURSIVE NonBlankParts(_)
NonBlankParts(ls) ==
  IF ls = <<>> THEN <<>>
  ELSE IF Strip(Head(ls)) # <<>>
       THEN <<Strip(Head(ls))>> \o NonBlankParts(Tail(ls))
       ELSE NonBlankParts(Tail(ls))

\* WeChatUI._normalize_contact_name; each assignment of the code binds a
\* name to the value of its right-hand side (n1: line 459, parts: line 461,
\* n2: line 463, n3: line 464)
NormalizeContactName(name) ==
  IF name = <<>> THEN <<>>
  ELSE CHOOSE result \in
         {IF n1 = <<>> THEN <<>>
          ELSE CHOOSE stripped \in
                 {Strip(StripUnreadSuffix(n3)) :
                    n3 \in {Strip(CollapseWs(n2)) :
                      n2 \in {IF parts # <<>> THEN parts[1] ELSE n1 :
                        parts \in {NonBlankParts(SplitLines(n1))}}}} : TRUE
          : n1 \in {Strip(name)}} : TRUE

\* substring test: Python's `t in s`
Contains(s, t) ==
  \E i \in 1..(Len(s) - Len(t) + 1) : SubSeq(s, i, i + Len(t) - 1) = t

\* --------------------------------------------------- configuration values
\* BridgeConfig defaults, times in tenths of a second
unread_scan_interval_min_seconds == 15
unread_scan_interval_max_seconds == 40
scan_interval_seconds == 6
scan_sleep_max == 9
message_scan_limit == 10
unread_max_default == 5

\* Listener.__init__: random.uniform(2.0, 5.0)
first_unread_delay_min == 20
first_unread_delay_max == 50
\* process_cycle: time.sleep(random.uniform(1.0, 2.5)) after a click
read_time_min == 10
read_time_max == 25
\* click_session_item: time.sleep(random.uniform(0.2, 0.5))
click_settle_min == 2
click_settle_max == 5
\* find_unread_sessions: children[:20]
session_scan_head == 20
\* _fetch_and_report: len(self._processed_sigs) > 2000
processed_sigs_limit == 2000
\* BridgeConfig.java_retry_max
java_retry_max_default == 3
\* _is_session_item_unread / _extract_message_from_item: max_depth=5
\* is the depth to which the `sub` field of an item lists its descendants.

\* ------------------------------------------------------------- descendants
\* A control's subtree is a sequence of nodes, each with its Name and the
\* index of its parent (0 for the control itself); GetChildren returns the
\* nodes below a parent in index order.
TreeNode(name, parent) == [name |-> name, parent |-> parent, raises |-> FALSE]

\* a node whose GetChildren raises
ClosedNode(name, parent) == [TreeNode(name, parent) EXCEPT !.raises = TRUE]

\* lines 437-441: node.GetChildren() or [], and [] when it raises
ChildrenOf(tree, n) ==
  IF n # 0 /\ tree[n].raises THEN <<>>
  ELSE SelectSeq([i \in 1..Len(tree) |-> i], LAMBDA i : tree[i].parent = n)

\* a test that lets one more level through
TooDeepOffByOne(depth, max_depth) == depth > max_depth

\* line 435
TooDeep(depth, max_depth) == depth >= max_depth

\* the while loop of _iter_descendants (lines 433-444): q is the queue,
\* out the nodes yielded so far
RECURSIVE IterLoop(_, _, _, _)
IterLoop(tree, q, out, max_depth) ==
  IF q = <<>> THEN out
  ELSE LET node == Head(q).node
           depth == Head(q).depth
           children == ChildrenOf(tree, node)
       IN  IF TooDeep(depth, max_depth) THEN IterLoop(tree, Tail(q), out, max_depth)
           ELSE IterLoop(tree,
                         Tail(q) \o [i \in 1..Len(children) |->
                                       [node |-> children[i], depth |-> depth + 1]],
                         out \o children,
                         max_depth)

\* _iter_descendants(root, max_depth): the nodes yielded, in order
IterDescendants(tree, max_depth) ==
  IF max_depth <= 0 THEN <<>>
  ELSE IterLoop(tree, <<[node |-> 0, depth |-> 0]>>, <<>>, max_depth)

\* ----------------------------------------------------------- UnreadDetector
\* line 855: _iter_descendants(item, max_depth=5)
unread_descendant_depth == 5

\* re.search(r"(\d+条新消息|未读)", s)
HasUnreadMarker(s) ==
  \/ \E i \in 1..Len(s) : s[i] = "U"
  \/ \E i \in 1..(Len(s) - 1) : IsDigit(s[i]) /\ s[i + 1] = "N"

\* re.fullmatch(r"\d+", s)
IsNumeric(s) == s # <<>> /\ \A i \in 1..Len(s) : IsDigit(s[i])

\* a test that takes no numeric badge for a sign
BadgeHitMarkerOnly(text) == \E i \in 1..Len(text) : text[i] \in {"N", "U"}

\* the test made on one descendant's Name (lines 858-867)
BadgeHit(text) ==
  /\ text # <<>>
  /\ \/ IsNumeric(Strip(text))
     \/ \E i \in 1..Len(text) : text[i] \in {"N", "U"}

\* WeChatUI._is_session_item_unread, for an item whose attributes can be read
IsSessionItemUnread(item) ==
  \/ HasUnreadMarker(item.name)
  \/ \E i \in 1..Len(item.sub) : BadgeHit(item.sub[i])

\* the Names the loop of lines 855-867 sees for an item with this subtree
DescendantNames(tree) ==
  LET d == IterDescendants(tree, unread_descendant_depth)
  IN  [i \in 1..Len(d) |-> tree[d[i]].name]

Min(a, b) == IF a < b THEN a ELSE b

Max(a, b) == IF a > b THEN a ELSE b

\* The loop of find_unread_sessions over children[:20]: the indices of the
\* entries collected, in list order.  An entry whose check raises is skipped.
RECURSIVE UnreadLoop(_, _, _, _)
UnreadLoop(children, i, acc, maxPerRound) ==
  IF i > Min(Len(children), session_scan_head) THEN acc
  ELSE IF Len(acc) >= maxPerRound THEN acc
  ELSE IF children[i].err THEN UnreadLoop(children, i + 1, acc, maxPerRound)
  ELSE IF IsSessionItemUnread(children[i])
       THEN UnreadLoop(children, i + 1, Append(acc, i), maxPerRound)
       ELSE UnreadLoop(children, i + 1, acc, maxPerRound)

\* the loop without the break of line 836
FindUnreadSessionsNoCap(children, maxPerRound) ==
  UnreadLoop(children, 1, <<>>, Len(children))

FindUnreadSessions(children, maxPerRound) ==
  UnreadLoop(children, 1, <<>>, maxPerRound)

\* --------------------------------------------------------- MessageExtractor
\* re.fullmatch(r"\d{1,2}:\d{2}", s)
IsClockTime(s) ==
  \/ Len(s) = 4 /\ IsDigit(s[1]) /\ s[2] = ":" /\ IsDigit(s[3]) /\ IsDigit(s[4])
  \/ Len(s) = 5 /\ IsDigit(s[1]) /\ IsDigit(s[2]) /\ s[3] = ":"
                /\ IsDigit(s[4]) /\ IsDigit(s[5])

\* re.fullmatch(r"(\d{1,2}:\d{2}|昨天.*|星期.*|202\d年.*)", s); "Y", "W" and "D"
\* stand for the three date prefixes, and `.` does not match a line break
IsTimestamp(s) ==
  \/ IsClockTime(s)
  \/ /\ s # <<>>
     /\ s[1] \in {"Y", "W", "D"}
     /\ \A i \in 2..Len(s) : s[i] # "/"

NoMsg == [none |-> TRUE]

NoId == "None"

MkMsg(contact, content, ui_id) ==
  [contact |-> contact, content |-> content, ui_id |-> ui_id,
   is_self |-> FALSE, trigger_reply |-> FALSE]

\* first descendant (depth <= 5, breadth-first) with a non-empty name that is
\* not an HH:MM time; 0 if none
FirstTextIdx(sub) ==
  IF \E i \in 1..Len(sub) : Strip(sub[i]) # <<>> /\ ~IsClockTime(Strip(sub[i]))
  THEN CHOOSE i \in 1..Len(sub) :
         /\ Strip(sub[i]) # <<>> /\ ~IsClockTime(Strip(sub[i]))
         /\ \A j \in 1..(i - 1) :
              ~(Strip(sub[j]) # <<>> /\ ~IsClockTime(Strip(sub[j])))
  ELSE 0

\* WeChatUI._extract_message_from_item
ExtractMessageFromItem(contact_hint, item) ==
  LET raw_name == Strip(item.name)
      k == FirstTextIdx(item.sub)
  IN  IF IsTimestamp(raw_name) THEN NoMsg
      ELSE IF item.cls = "ChatTextItemView" /\ raw_name # <<>>
           THEN MkMsg(contact_hint, raw_name, item.rid)
      ELSE IF k # 0 THEN MkMsg(contact_hint, Strip(item.sub[k]), item.rid)
      ELSE NoMsg

\* WeChatUI._analyze_item_alignment: l and r are the colour scores of the two
\* 70-pixel bands; a negative score stands for a screen grab that raises
AnalyzeItemAlignment(item) ==
  IF item.l < 0 \/ item.r < 0 THEN "other"
  ELSE IF item.l < 2 /\ item.r < 2 THEN "other"
  ELSE IF item.r > item.l THEN "self" ELSE "other"

\* the configured limit taken as it is
ScanLimitUnfloored(limit) == limit

\* scan_limit = max(5, int(self._cfg.message_scan_limit))
ScanLimit(limit) == Max(5, limit)

\* items[-scan_limit:]
LastItems(items, n) ==
  IF Len(items) <= n THEN items ELSE SubSeq(items, Len(items) - n + 1, Len(items))

\* the for loop of extract_latest_messages (lines 1228-1236)
RECURSIVE CollectMessages(_, _)
CollectMessages(contact, items) ==
  IF items = <<>> THEN <<>>
  ELSE LET msg == ExtractMessageFromItem(contact, Head(items))
           rest == CollectMessages(contact, Tail(items))
       IN  IF msg = NoMsg THEN rest
           ELSE <<[msg EXCEPT !.is_self = (AnalyzeItemAlignment(Head(items)) = "self")]>>
                \o rest

\* the mark put on the last message whoever wrote it
MarkTriggerReplyAlways(collected) ==
  IF collected = <<>> THEN collected
  ELSE [collected EXCEPT ![Len(collected)].trigger_reply = TRUE]

\* lines 1241-1244: the reply mark on the last collected message
MarkTriggerReply(collected) ==
  IF collected = <<>> THEN collected
  ELSE IF ~collected[Len(collected)].is_self
       THEN [collected EXCEPT ![Len(collected)].trigger_reply = TRUE]
       ELSE collected

\* WeChatUI.extract_latest_messages once the window and the list are found;
\* title is the current chat title, read when the hint normalizes to nothing
ExtractLatestMessages(contact_hint, title, items, scanLimit) ==
  LET n0 == NormalizeContactName(contact_hint)
      normalized_contact == IF n0 # <<>> THEN n0 ELSE NormalizeContactName(title)
      label == IF normalized_contact # <<>> THEN normalized_contact ELSE contact_hint
  IN  IF items = <<>> THEN <<>>
      ELSE MarkTriggerReply(CollectMessages(label, LastItems(items, ScanLimit(scanLimit))))

\* --------------------------------------------------------------- signature
\* str() of a runtime id and of a bool, each one token
IdStr(ui_id) == <<"(", ui_id, ")">>

BoolStr(b) == IF b THEN <<"True">> ELSE <<"False">>

\* _sha1_text: SHA-1 is taken to be collision free, so the digest is
\* represented by the text it was computed from
Sha1Text(text) == text

\* lines 1464-1467
MessageSig(msg) ==
  IF msg.ui_id # NoId
  THEN Sha1Text(IdStr(msg.ui_id) \o <<"|">> \o msg.content)
  ELSE Sha1Text(msg.contact \o <<"|">> \o msg.content \o <<"|">> \o BoolStr(msg.is_self))

\* ------------------------------------------------------------------ state
VARIABLES
  clock,                  \* time.time()
  horizon,                \* the time after which no further cycle is started
  faults,                 \* whether UI operations may fail in this run
  activeChat,             \* title of the chat shown in the message pane
  chatMsgs,               \* title -> children of that chat's message list
  sessions,               \* children of the session list
  lockOwner, lockDepth,   \* WeChatUI._uia_lock (threading.RLock)
  pc,                     \* scheduler thread: position in main / process_cycle
  now,                    \* process_cycle: now
  next_unread_scan_time,  \* Listener._next_unread_scan_time
  unread_max_per_round,   \* BridgeConfig.unread_max_per_round
  scanWin,                \* result of get_main_window() in the scheduler
  contact,                \* process_cycle: current_contact / contact
  unread, ui,             \* process_cycle: unread, position of the for loop
  messages, mi,           \* _fetch_and_report: messages, position of the loop
  fetchRet,               \* where _fetch_and_report returns to
  processed_sigs,         \* Listener._processed_sigs
  pollQ,                  \* Poller._queue
  reportQ,                \* Reporter._q
  cpc, ctarget, cbest,    \* command threads: position, target, matched entry
  cresult,                \* command threads: value returned to do_POST
  gs,                     \* history of the scheduler's current cycle
  navSinceSelect,         \* a dispatcher click happened since the scan chose a chat
  intruded,               \* per command: a foreign click after verification
  csent,                  \* per command: what set_text_and_send did to the UI
  java_retry_max,         \* BridgeConfig.java_retry_max
  rpc, rpayload, attempt, \* Reporter thread: position, payload, loop variable
  rhist,                  \* per submitted payload: what its attempts came to
  submitted,              \* number of payloads handed to Reporter.submit
  enqueued,               \* number of payloads handed to Poller.enqueue
  ppc, pmsgs, preturned,  \* poll calls: position, local `messages`, value returned
  hlog,                   \* POST /command requests handled so far
  win_env,                \* the top-level window the desktop shows, if any
  cached_main,            \* WeChatUI._cached_main
  tree_logged_handle,     \* WeChatUI._tree_logged_handle
  wlast,                  \* the last get_main_window() request
  pin, pout,              \* a function under examination: argument and value
  stopping,               \* Reporter._stopping
  server_up,              \* CommandServer._httpd is serving
  sigint                  \* the interrupt: whether it was sent, and where it went

uiVars == <<activeChat, chatMsgs, sessions>>

lockVars == <<lockOwner, lockDepth>>

scanVars ==
  <<pc, now, next_unread_scan_time, unread_max_per_round, scanWin, contact,
    unread, ui, messages, mi, fetchRet>>

dedupVars == <<processed_sigs, pollQ, reportQ>>

cmdVars == <<cpc, ctarget, cbest, cresult, csent>>

reportVars == <<java_retry_max, rpc, rpayload, attempt, rhist, submitted>>

pollVars == <<enqueued, ppc, pmsgs, preturned>>

httpVars == <<hlog>>

winVars == <<win_env, cached_main, tree_logged_handle, wlast>>

pureVars == <<pin, pout>>

stopVars == <<stopping, server_up, sigint>>

\* what the threads of the earlier sections leave alone
restVars == <<pureVars, stopVars>>

\* the state of the threads beside the scheduler and the dispatcher
sideVars == <<reportVars, pollVars, httpVars, winVars>>

ghostVars == <<gs, navSinceSelect, intruded>>

vars ==
  <<clock, horizon, faults, restVars, uiVars, lockVars, scanVars, dedupVars, cmdVars, ghostVars,
    sideVars>>

\* --------------------------------------------------------------- threads
ScanT == "scan"

Cmds == {ToString(i) : i \in 1..MaxCommands}

NoOwner == "none"

\* the GET /poll calls the threaded HTTP server handles
Polls == {ToString(i) : i \in 1..MaxPolls}

\* --------------------------------------------------------- InteractionGate
\* a lock that its holder cannot take again
LockFreeNonReentrant(t) == lockOwner = NoOwner

\* threading.RLock.acquire (line 451) succeeds for the owner and when nobody
\* owns it
LockFree(t) == lockOwner = NoOwner \/ lockOwner = t

Acquire(t) == lockOwner' = t /\ lockDepth' = lockDepth + 1

\* an exit of the `with` block that keeps the lock with the thread
ReleaseKeepsOwner(t) ==
  /\ lockDepth' = lockDepth - 1
  /\ lockOwner' = lockOwner

Release(t) ==
  /\ lockDepth' = lockDepth - 1
  /\ lockOwner' = IF lockDepth = 1 THEN NoOwner ELSE lockOwner

\* ----------------------------------------------------- outcomes of UI calls
Outcomes == IF faults THEN {"ok", "raise"} ELSE {"ok"}

WindowResults == IF faults THEN {"ok", "none"} ELSE {"ok"}

\* ------------------------------------------------------------ UI contents
Titles == {<<"a">>, <<"b">>}

NoChat == <<>>

Unknown == <<"unknown">>

SessionItem(name, sub, title) ==
  [name |-> name, sub |-> sub, title |-> title, err |-> FALSE]

\* an entry with nothing new: contact name and a preview line
ReadEntry(t) == SessionItem(t \o <<"/", "a">>, <<t>>, t)

\* unread entries: marked in the name, or by a numeric badge below it
UnreadByName(t) == SessionItem(t \o <<"/", "1", "N">>, <<t>>, t)

UnreadByBadge(t) == SessionItem(t, <<t, <<"1">>>>, t)

\* an entry without a name of its own, carrying a badge
NamelessUnread(t) == SessionItem(<<>>, <<<<"1">>>>, t)

MsgItem(name, cls, sub, rid, l, r) ==
  [name |-> name, cls |-> cls, sub |-> sub, rid |-> rid, l |-> l, r |-> r]

\* a text bubble of the partner (avatar on the left) and of the user
OtherText(content, rid) == MsgItem(content, "ChatTextItemView", <<>>, rid, 3, 0)

SelfText(content, rid) == MsgItem(content, "ChatTextItemView", <<>>, rid, 0, 3)

\* a time separator and a system notice (no avatar on either side)
TimeItem == MsgItem(<<"1", ":", "1", "1">>, "ChatItemView", <<>>, "9", 0, 0)

\* a non-text bubble: the text is found among the descendants
NestedItem(content, rid) ==
  MsgItem(<<>>, "ChatBubbleItemView", <<<<>>, <<"1", ":", "1", "1">>, content>>, rid, 3, 1)

\* ------------------------------------------- Listener.process_cycle (guards)
\* the comparison of line 1430 turned around
UnreadScanDueInverted(t, nextScan) == t <= nextScan

\* line 1430
UnreadScanDue(t, nextScan) == t >= nextScan

\* where an exception raised in step 1 of the cycle continues (line 1425)
ActiveScanExcept == "u_check"

\* no handler around the cycle body: the exception leaves process_cycle
CycleExceptPropagates == "crashed"

\* a handler that goes on to set the time of the next unread scan
CycleExceptResets == "u_reset"

\* where an exception raised anywhere else in the cycle continues (line 1453)
CycleExcept == "cycle_end"

\* click_session_item entered without waiting for the gate
ClickGateOpen(t) == TRUE

\* the gate taken by click_session_item (line 873)
ClickGate(t) == LockFree(t)

\* the positions at which the scheduler waits for the gate, and the position
\* inside the gated call
ScanGated ==
  [a_win |-> "a_win_in", f_lock |-> "f_in", u_find |-> "u_find_in",
   u_title |-> "u_title_win"]

ScanInTree == {"a_win_in", "a_title_rd", "f_in", "u_find_in", "u_click_in",
               "u_title_win", "u_title_rd"}

NewCycleHistory ==
  [gs EXCEPT !.cycNext = next_unread_scan_time, !.active = FALSE,
             !.unreadScan = FALSE, !.clicked = <<>>, !.raised = FALSE,
             !.reset = FALSE, !.passEnd = -1]

\* main: listener.process_cycle() is called; line 1415
CycleStart ==
  /\ pc = "cycle"
  /\ clock <= horizon
  /\ pc' = "a_win"
  /\ now' = clock
  /\ gs' = NewCycleHistory
  /\ UNCHANGED <<clock, horizon, faults, restVars, sideVars, uiVars, lockVars, next_unread_scan_time,
                 unread_max_per_round, scanWin, contact, unread, ui, messages,
                 mi, fetchRet, dedupVars, cmdVars, navSinceSelect, intruded>>

\* ------------------------------------------------------------ queue.Queue
\* a get that takes the head and loses the item behind it
QueueGetSkip(q) ==
  [item |-> Head(q), rest |-> IF Len(q) >= 2 THEN Tail(Tail(q)) ELSE Tail(q)]

\* a get that takes the item put last
QueueGetLast(q) == [item |-> q[Len(q)], rest |-> SubSeq(q, 1, Len(q) - 1)]

\* queue.Queue.get / get_nowait on a non-empty queue (lines 1389, 1512, 1516)
QueueGet(q) == [item |-> Head(q), rest |-> Tail(q)]

\* a queue that holds one item: put waits while it is there
QueueFullAtOne(q) == Len(q) >= 1

\* lines 1377 and 1500: queue.Queue() has no maxsize, put never waits
QueueFull(q) == FALSE

\* an enqueue that puts the message twice
PollerEnqueueTwice(q, msg) == Append(Append(q, msg), msg)

\* Poller.enqueue (lines 1502-1503)
PollerEnqueue(q, msg) == Append(q, msg)

\* Reporter.submit (lines 1380-1381)
ReporterSubmit(q, payload) == Append(q, payload)

\* history of one payload: the payload, attempts made, failures among them,
\* whether a 2xx came, attempts made after the 2xx, whether post_message
\* returned, and attempts made after it returned
NoAttempts ==
  [payload |-> NoMsg, attempts |-> 0, fails |-> 0, ok |-> FALSE, afterOk |-> 0,
   done |-> FALSE, late |-> 0]

NewHistory(payload) == [NoAttempts EXCEPT !.payload = payload]

\* a gated call of the scheduler gets the lock
ScanAcquire ==
  /\ pc \in DOMAIN ScanGated
  /\ LockFree(ScanT)
  /\ Acquire(ScanT)
  /\ pc' = ScanGated[pc]
  /\ UNCHANGED <<clock, horizon, faults, restVars, sideVars, uiVars, now, next_unread_scan_time,
                 unread_max_per_round, scanWin, contact, unread, ui, messages,
                 mi, fetchRet, dedupVars, cmdVars, ghostVars>>

\* line 1420: get_main_window() returns (it catches what its lookups raise)
ScanGetWindow ==
  /\ pc = "a_win_in"
  /\ \E w \in WindowResults : scanWin' = w
  /\ Release(ScanT)
  /\ pc' = "a_title"
  /\ UNCHANGED <<clock, horizon, faults, restVars, sideVars, uiVars, now, next_unread_scan_time,
                 unread_max_per_round, contact, unread, ui, messages, mi,
                 fetchRet, dedupVars, cmdVars, ghostVars>>

\* line 1420: get_current_chat_title(window) starts; without a window it
\* returns None at once, otherwise it walks the tree, not holding the gate
ScanTitleBegin ==
  /\ pc = "a_title"
  /\ IF scanWin = "none"
     THEN /\ pc' = "u_check"
          /\ gs' = [gs EXCEPT !.active = TRUE]
     ELSE /\ pc' = "a_title_rd"
          /\ gs' = gs
  /\ contact' = <<>>
  /\ UNCHANGED <<clock, horizon, faults, restVars, sideVars, uiVars, lockVars, now, next_unread_scan_time,
                 unread_max_per_round, scanWin, unread, ui, messages, mi,
                 fetchRet, dedupVars, cmdVars, navSinceSelect, intruded>>

\* lines 1420-1426: the title walk ends
ScanTitleEnd ==
  /\ pc = "a_title_rd"
  /\ \E o \in Outcomes :
       IF o = "raise"
       THEN /\ pc' = ActiveScanExcept
            /\ contact' = <<>>
            /\ gs' = [gs EXCEPT !.active = TRUE, !.raised = TRUE, !.everRaised = TRUE]
            /\ UNCHANGED <<fetchRet, navSinceSelect>>
       ELSE LET current_contact == NormalizeContactName(activeChat)
            IN  /\ contact' = current_contact
                /\ navSinceSelect' = FALSE
                /\ IF current_contact # <<>>
                   THEN /\ pc' = "fetch"
                        /\ fetchRet' = "u_check"
                        /\ gs' = gs
                   ELSE /\ pc' = "u_check"
                        /\ gs' = [gs EXCEPT !.active = TRUE]
                        /\ UNCHANGED fetchRet
  /\ UNCHANGED <<clock, horizon, faults, restVars, sideVars, uiVars, lockVars, now, next_unread_scan_time,
                 unread_max_per_round, scanWin, unread, ui, messages, mi,
                 dedupVars, cmdVars, intruded>>

\* ------------------------------------------------ Listener._fetch_and_report
\* lines 1458-1460
FetchEnter ==
  /\ pc = "fetch"
  /\ contact' = NormalizeContactName(contact)
  /\ IF contact' = <<>>
     THEN /\ pc' = fetchRet
          /\ ui' = IF fetchRet = "u_item" THEN ui + 1 ELSE ui
          /\ gs' = IF fetchRet = "u_check" THEN [gs EXCEPT !.active = TRUE] ELSE gs
     ELSE /\ pc' = "f_lock"
          /\ UNCHANGED <<ui, gs>>
  /\ UNCHANGED <<clock, horizon, faults, restVars, sideVars, uiVars, lockVars, now, next_unread_scan_time,
                 unread_max_per_round, scanWin, unread, messages, mi, fetchRet,
                 dedupVars, cmdVars, navSinceSelect, intruded>>

\* line 1461: extract_latest_messages(contact), inside the gate; what it
\* raises is caught at line 1483
FetchExtract ==
  /\ pc = "f_in"
  /\ Release(ScanT)
  /\ \E o \in Outcomes, w \in WindowResults :
       IF o = "raise"
       THEN /\ pc' = fetchRet
            /\ ui' = IF fetchRet = "u_item" THEN ui + 1 ELSE ui
            /\ messages' = <<>>
            /\ gs' = [gs EXCEPT !.raised = TRUE, !.everRaised = TRUE,
                                !.active = IF fetchRet = "u_check" THEN TRUE ELSE @]
            /\ UNCHANGED mi
       ELSE /\ pc' = "f_loop"
            /\ mi' = 1
            /\ messages' =
                 IF w = "none" \/ activeChat = NoChat THEN <<>>
                 ELSE ExtractLatestMessages(contact, activeChat,
                                            chatMsgs[activeChat], message_scan_limit)
            /\ gs' = [gs EXCEPT !.fetchSrc = activeChat,
                                !.fetchIntr = navSinceSelect,
                                !.passClear = FALSE]
            /\ UNCHANGED ui
  /\ UNCHANGED <<clock, horizon, faults, restVars, sideVars, uiVars, now, next_unread_scan_time,
                 unread_max_per_round, scanWin, contact, unread, fetchRet,
                 dedupVars, cmdVars, navSinceSelect, intruded>>

\* a check that never finds the signature
AlreadyProcessedNever(sig, sigs) == FALSE

\* line 1469
AlreadyProcessed(sig, sigs) == sig \in sigs

\* the clear taken one insertion early (>= for > at line 1473)
RecordSigAtLimit(sig, sigs) ==
  IF Cardinality(sigs \cup {sig}) >= processed_sigs_limit THEN {} ELSE sigs \cup {sig}

\* a clear that spares the signature just inserted
RecordSigKeepsOwn(sig, sigs) ==
  IF Cardinality(sigs \cup {sig}) > processed_sigs_limit THEN {sig} ELSE sigs \cup {sig}

\* lines 1472-1474
RecordSig(sig, sigs) ==
  IF Cardinality(sigs \cup {sig}) > processed_sigs_limit THEN {} ELSE sigs \cup {sig}

\* lines 1462-1482: one iteration of the loop over the extracted messages
FetchStep ==
  /\ pc = "f_loop"
  /\ mi <= Len(messages)
  /\ LET msg == messages[mi]
         sig == MessageSig(msg)
     IN  IF AlreadyProcessed(sig, processed_sigs)
         THEN UNCHANGED <<dedupVars, gs, rhist, submitted, enqueued>>
         ELSE /\ processed_sigs' = RecordSig(sig, processed_sigs)
              /\ pollQ' = PollerEnqueue(pollQ, msg)
              /\ enqueued' = enqueued + 1
              /\ ~QueueFull(reportQ)
              /\ reportQ' = ReporterSubmit(reportQ, msg)
              /\ submitted' = submitted + 1
              /\ rhist' = Append(rhist, NewHistory(msg))
              /\ gs' = [gs EXCEPT
                          !.epoch = IF processed_sigs' = {} THEN {}
                                    ELSE @ \cup {sig},
                          !.clears = IF processed_sigs' = {} THEN @ + 1 ELSE @,
                          !.passClear = IF processed_sigs' = {} THEN TRUE ELSE @]
  /\ mi' = mi + 1
  /\ UNCHANGED <<clock, horizon, faults, restVars, uiVars, lockVars, pc, now, next_unread_scan_time,
                 unread_max_per_round, scanWin, contact, unread, ui, messages,
                 fetchRet, cmdVars, navSinceSelect, intruded, java_retry_max, rpc,
                 rpayload, attempt, ppc, pmsgs, preturned, httpVars, winVars>>

\* the loop is over: _fetch_and_report returns to process_cycle
FetchReturn ==
  /\ pc = "f_loop"
  /\ mi > Len(messages)
  /\ pc' = fetchRet
  /\ ui' = IF fetchRet = "u_item" THEN ui + 1 ELSE ui
  /\ gs' = IF fetchRet = "u_check" THEN [gs EXCEPT !.active = TRUE] ELSE gs
  /\ UNCHANGED <<clock, horizon, faults, restVars, sideVars, uiVars, lockVars, now, next_unread_scan_time,
                 unread_max_per_round, scanWin, contact, unread, messages, mi,
                 fetchRet, dedupVars, cmdVars, navSinceSelect, intruded>>

\* ------------------------------------------ process_cycle: the unread scan
\* line 1430
ScanUnreadCheck ==
  /\ pc = "u_check"
  /\ IF UnreadScanDue(now, next_unread_scan_time)
     THEN pc' = "u_find" /\ gs' = [gs EXCEPT !.unreadScan = TRUE]
     ELSE pc' = "cycle_end" /\ gs' = gs
  /\ UNCHANGED <<clock, horizon, faults, restVars, sideVars, uiVars, lockVars, now, next_unread_scan_time,
                 unread_max_per_round, scanWin, contact, unread, ui, messages,
                 mi, fetchRet, dedupVars, cmdVars, navSinceSelect, intruded>>

\* line 1432: find_unread_sessions(), inside the gate; what GetChildren
\* raises is not caught there
ScanFindUnread ==
  /\ pc = "u_find_in"
  /\ Release(ScanT)
  /\ \E o \in Outcomes, w \in WindowResults :
       IF o = "raise"
       THEN /\ pc' = CycleExcept
            /\ gs' = [gs EXCEPT !.raised = TRUE, !.everRaised = TRUE]
            /\ UNCHANGED <<unread, ui>>
       ELSE /\ pc' = "u_item"
            /\ unread' = IF w = "none" THEN <<>>
                         ELSE FindUnreadSessions(sessions, unread_max_per_round)
            /\ ui' = 1
            /\ gs' = gs
  /\ UNCHANGED <<clock, horizon, faults, restVars, sideVars, uiVars, now, next_unread_scan_time,
                 unread_max_per_round, scanWin, contact, messages, mi, fetchRet,
                 dedupVars, cmdVars, navSinceSelect, intruded>>

\* line 1435: the for loop takes the next unread entry, or ends
ScanNextItem ==
  /\ pc = "u_item"
  /\ pc' = IF ui > Len(unread) THEN "u_reset" ELSE "u_click"
  /\ UNCHANGED <<clock, horizon, faults, restVars, sideVars, uiVars, lockVars, now, next_unread_scan_time,
                 unread_max_per_round, scanWin, contact, unread, ui, messages,
                 mi, fetchRet, dedupVars, cmdVars, ghostVars>>

\* line 1436 / 873: click_session_item takes the gate
ScanClickAcquire ==
  /\ pc = "u_click"
  /\ ClickGate(ScanT)
  /\ Acquire(ScanT)
  /\ pc' = "u_click_in"
  /\ UNCHANGED <<clock, horizon, faults, restVars, sideVars, uiVars, now, next_unread_scan_time,
                 unread_max_per_round, scanWin, contact, unread, ui, messages,
                 mi, fetchRet, dedupVars, cmdVars, ghostVars>>

\* commands that have verified their target and not yet sent
Verified == {c \in Cmds : cpc[c] \in {"c_input", "c_paste", "c_send"}}

\* line 1439
OrUnknown(name) ==
  IF NormalizeContactName(name) # <<>> THEN NormalizeContactName(name) ELSE Unknown

\* lines 1436-1439 / 870-889: click_session_item(item) and what follows it
ScanClick ==
  /\ pc = "u_click_in"
  /\ Release(ScanT)
  /\ LET item == sessions[unread[ui]]
         name == NormalizeContactName(item.name)
     IN  \E o \in Outcomes \cup (IF faults THEN {"clickfail"} ELSE {}),
            w \in WindowResults, d \in {click_settle_min, click_settle_max} :
           \/ /\ o = "raise"
              /\ d = click_settle_min
              /\ pc' = CycleExcept
              /\ \/ /\ gs' = [gs EXCEPT !.raised = TRUE, !.everRaised = TRUE]
                    /\ UNCHANGED <<activeChat, navSinceSelect, intruded>>
                 \/ /\ gs' = [gs EXCEPT !.raised = TRUE, !.everRaised = TRUE,
                                        !.clicked = Append(@, unread[ui])]
                    /\ activeChat' = item.title
                    /\ navSinceSelect' = FALSE
                    /\ intruded' = [c \in Cmds |-> intruded[c] \/ c \in Verified]
              /\ UNCHANGED <<clock, contact>>
           \/ /\ o = "clickfail"
              /\ d = click_settle_min
              /\ gs' = [gs EXCEPT !.clicked = Append(@, unread[ui])]
              /\ contact' = IF name # <<>> THEN OrUnknown(name) ELSE <<>>
              /\ pc' = IF name # <<>> THEN "u_sleep" ELSE "u_title"
              /\ navSinceSelect' = FALSE
              /\ UNCHANGED <<clock, activeChat, intruded>>
           \/ /\ o = "ok"
              /\ activeChat' = item.title
              /\ clock' = clock + d
              /\ gs' = [gs EXCEPT !.clicked = Append(@, unread[ui])]
              /\ navSinceSelect' = FALSE
              /\ intruded' = [c \in Cmds |-> intruded[c] \/ c \in Verified]
              /\ LET current_name ==
                       IF w = "none" THEN <<>> ELSE NormalizeContactName(item.title)
                     result == IF current_name # <<>> THEN current_name ELSE name
                 IN  /\ contact' = IF result # <<>> THEN OrUnknown(result) ELSE <<>>
                     /\ pc' = IF result # <<>> THEN "u_sleep" ELSE "u_title"
  /\ UNCHANGED <<horizon, faults, restVars, sideVars, chatMsgs, sessions, now, next_unread_scan_time,
                 unread_max_per_round, scanWin, unread, ui, messages, mi,
                 fetchRet, dedupVars, cmdVars>>

\* line 1438: get_main_window() of the second title read returns
ScanTitle2Window ==
  /\ pc = "u_title_win"
  /\ Release(ScanT)
  /\ \E w \in WindowResults :
       /\ scanWin' = w
       /\ IF w = "none"
          THEN pc' = "u_sleep" /\ contact' = Unknown
          ELSE pc' = "u_title_rd" /\ contact' = contact
  /\ UNCHANGED <<clock, horizon, faults, restVars, sideVars, uiVars, now, next_unread_scan_time,
                 unread_max_per_round, unread, ui, messages, mi, fetchRet,
                 dedupVars, cmdVars, ghostVars>>

\* lines 1438-1439: the second title walk, not holding the gate, ends
ScanTitle2End ==
  /\ pc = "u_title_rd"
  /\ \E o \in Outcomes :
       IF o = "raise"
       THEN /\ pc' = CycleExcept
            /\ gs' = [gs EXCEPT !.raised = TRUE, !.everRaised = TRUE]
            /\ UNCHANGED <<contact, navSinceSelect>>
       ELSE /\ pc' = "u_sleep"
            /\ contact' = OrUnknown(activeChat)
            /\ navSinceSelect' = FALSE
            /\ gs' = gs
  /\ UNCHANGED <<clock, horizon, faults, restVars, sideVars, uiVars, lockVars, now, next_unread_scan_time,
                 unread_max_per_round, scanWin, unread, ui, messages, mi,
                 fetchRet, dedupVars, cmdVars, intruded>>

\* line 1442: the read time, then line 1444
ScanReadSleep ==
  /\ pc = "u_sleep"
  /\ \E d \in {read_time_min, read_time_max} : clock' = clock + d
  /\ pc' = "fetch"
  /\ fetchRet' = "u_item"
  /\ UNCHANGED <<horizon, faults, restVars, sideVars, uiVars, lockVars, now, next_unread_scan_time,
                 unread_max_per_round, scanWin, contact, unread, ui, messages,
                 mi, dedupVars, cmdVars, ghostVars>>

\* lines 1447-1448
ScanReset ==
  /\ pc = "u_reset"
  /\ \E interval \in {unread_scan_interval_min_seconds,
                      unread_scan_interval_max_seconds} :
       next_unread_scan_time' = now + interval
  /\ gs' = [gs EXCEPT !.reset = TRUE, !.passEnd = clock]
  /\ pc' = "cycle_end"
  /\ UNCHANGED <<clock, horizon, faults, restVars, sideVars, uiVars, lockVars, now, unread_max_per_round,
                 scanWin, contact, unread, ui, messages, mi, fetchRet,
                 dedupVars, cmdVars, navSinceSelect, intruded>>

\* main, line 1744: process_cycle has returned; _sleep_with_jitter
MainSleep ==
  /\ pc = "cycle_end"
  /\ \E d \in {scan_interval_seconds, scan_sleep_max} : clock' = clock + d
  /\ pc' = "cycle"
  /\ UNCHANGED <<horizon, faults, restVars, sideVars, uiVars, lockVars, now, next_unread_scan_time,
                 unread_max_per_round, scanWin, contact, unread, ui, messages,
                 mi, fetchRet, dedupVars, cmdVars, ghostVars>>

Scanner ==
  \/ CycleStart \/ ScanAcquire \/ ScanGetWindow \/ ScanTitleBegin
  \/ ScanTitleEnd \/ FetchEnter \/ FetchExtract \/ FetchStep \/ FetchReturn
  \/ ScanUnreadCheck \/ ScanFindUnread \/ ScanNextItem \/ ScanClickAcquire
  \/ ScanClick \/ ScanTitle2Window \/ ScanTitle2End \/ ScanReadSleep
  \/ ScanReset \/ MainSleep

\* ----------------------------------------- WeChatUI.set_text_and_send
\* raw_name.split('\n')[0]
FirstLineRaw(s) ==
  IF \E i \in 1..Len(s) : s[i] = "/"
  THEN SubSeq(s, 1, (CHOOSE k \in 1..Len(s) :
                       s[k] = "/" /\ \A j \in 1..(k - 1) : s[j] # "/") - 1)
  ELSE s

\* lines 922-926
EntryName(item) == NormalizeContactName(Strip(FirstLineRaw(item.name)))

\* line 936
EntryMatches(target_name, name) ==
  name # <<>> /\ (target_name = name \/ (target_name # <<>> /\ Contains(name, target_name)))

\* the entry whose name is the target itself, before any that contains it
BestEntryExactFirst(children, target_name) ==
  IF \E i \in 1..Len(children) : EntryName(children[i]) = target_name /\ target_name # <<>>
  THEN CHOOSE i \in 1..Len(children) :
         /\ EntryName(children[i]) = target_name
         /\ \A j \in 1..(i - 1) : EntryName(children[j]) # target_name
  ELSE IF \E i \in 1..Len(children) : EntryMatches(target_name, EntryName(children[i]))
  THEN CHOOSE i \in 1..Len(children) :
         /\ EntryMatches(target_name, EntryName(children[i]))
         /\ \A j \in 1..(i - 1) : ~EntryMatches(target_name, EntryName(children[j]))
  ELSE 0

\* lines 921-939: the first matching entry of the session list, 0 if none
BestEntry(children, target_name) ==
  IF \E i \in 1..Len(children) : EntryMatches(target_name, EntryName(children[i]))
  THEN CHOOSE i \in 1..Len(children) :
         /\ EntryMatches(target_name, EntryName(children[i]))
         /\ \A j \in 1..(i - 1) : ~EntryMatches(target_name, EntryName(children[j]))
  ELSE 0

\* a comparison that accepts any title
TitleHasTargetAlways(title, target) == TRUE

\* lines 906 and 952
TitleHasTarget(title, target) ==
  LET current_name == NormalizeContactName(title)
      target_name == NormalizeContactName(target)
  IN  current_name # <<>> /\ target_name # <<>> /\ Contains(current_name, target_name)

NoResult == [ret |-> "none", chat |-> NoChat]

\* nothing typed, nothing sent
NoSent ==
  [verified |-> FALSE, pasted |-> FALSE, chat |-> NoChat, btn |-> "none",
   click |-> "none", enter |-> "none", clicks |-> 0, enters |-> 0,
   switches |-> 0]

\* the dispatcher returns `ret` (or raises), leaving every `with` block
CmdReturn(c, ret) ==
  /\ cpc' = [cpc EXCEPT ![c] = "c_done"]
  /\ cresult' = [cresult EXCEPT ![c] = [ret |-> ret, chat |-> activeChat]]
  /\ lockOwner' = NoOwner
  /\ lockDepth' = 0

\* do_POST line 1596: a validated command enters set_text_and_send
CmdStart(c) ==
  /\ cpc[c] = "c_idle"
  /\ \E t \in Titles : ctarget' = [ctarget EXCEPT ![c] = t]
  /\ cpc' = [cpc EXCEPT ![c] = "c_lock"]
  /\ UNCHANGED <<clock, horizon, faults, restVars, sideVars, uiVars, lockVars, scanVars, dedupVars, cbest,
                 cresult, csent, ghostVars>>

\* line 1281
CmdAcquire(c) ==
  /\ cpc[c] = "c_lock"
  /\ LockFree(c)
  /\ Acquire(c)
  /\ cpc' = [cpc EXCEPT ![c] = "c_win"]
  /\ UNCHANGED <<clock, horizon, faults, restVars, sideVars, uiVars, scanVars, dedupVars, ctarget, cbest,
                 cresult, csent, ghostVars>>

\* lines 1282-1290
CmdGetWindow(c) ==
  /\ cpc[c] = "c_win"
  /\ \E w \in WindowResults :
       IF w = "none"
       THEN CmdReturn(c, "false")
       ELSE /\ cpc' = [cpc EXCEPT ![c] = "c_ensure"]
            /\ UNCHANGED <<lockVars, cresult>>
  /\ UNCHANGED <<clock, horizon, faults, restVars, sideVars, uiVars, scanVars, dedupVars, ctarget, cbest,
                 csent, ghostVars>>

\* lines 1293 / 891-943: ensure_chat_target up to the choice of the entry
CmdEnsure(c) ==
  /\ cpc[c] = "c_ensure"
  /\ LockFree(c)
  /\ \E o \in Outcomes, w \in WindowResults :
       IF o = "raise" THEN CmdReturn(c, "raised") /\ UNCHANGED <<cbest, csent>>
       ELSE IF w = "none" THEN CmdReturn(c, "false") /\ UNCHANGED <<cbest, csent>>
       ELSE IF TitleHasTarget(activeChat, ctarget[c])
            THEN /\ cpc' = [cpc EXCEPT ![c] = "c_input"]
                 /\ csent' = [csent EXCEPT ![c].verified = TRUE]
                 /\ UNCHANGED <<lockVars, cresult, cbest>>
       ELSE LET best == BestEntry(sessions, NormalizeContactName(ctarget[c]))
            IN  IF best = 0 THEN CmdReturn(c, "false") /\ UNCHANGED <<cbest, csent>>
                ELSE /\ cbest' = [cbest EXCEPT ![c] = best]
                     /\ cpc' = [cpc EXCEPT ![c] = "c_click"]
                     /\ Acquire(c)
                     /\ UNCHANGED <<cresult, csent>>
  /\ UNCHANGED <<clock, horizon, faults, restVars, sideVars, uiVars, scanVars, dedupVars, ctarget, ghostVars>>

\* line 945: click_session_item(best), then the settle time of line 946
CmdClick(c) ==
  /\ cpc[c] = "c_click"
  /\ LockFree(c)
  /\ \E o \in Outcomes \cup (IF faults THEN {"clickfail"} ELSE {}) :
       \/ /\ o = "raise"
          /\ CmdReturn(c, "raised")
          /\ UNCHANGED <<activeChat, navSinceSelect, intruded>>
       \/ /\ o = "clickfail"
          /\ cpc' = [cpc EXCEPT ![c] = "c_verify"]
          /\ UNCHANGED <<activeChat, navSinceSelect, intruded, lockVars, cresult>>
       \/ /\ o = "ok"
          /\ activeChat' = sessions[cbest[c]].title
          /\ navSinceSelect' = TRUE
          /\ intruded' = [k \in Cmds |-> intruded[k] \/ (k # c /\ k \in Verified)]
          /\ cpc' = [cpc EXCEPT ![c] = "c_verify"]
          /\ UNCHANGED <<lockVars, cresult>>
  /\ csent' = [csent EXCEPT ![c].switches = @ + 1]
  /\ UNCHANGED <<clock, horizon, faults, restVars, sideVars, chatMsgs, sessions, scanVars, dedupVars,
                 ctarget, cbest, gs>>

\* lines 949-952: the title is read again and compared
CmdVerify(c) ==
  /\ cpc[c] = "c_verify"
  /\ \E o \in Outcomes :
       IF o = "raise" THEN CmdReturn(c, "raised") /\ UNCHANGED csent
       ELSE IF TitleHasTarget(activeChat, ctarget[c])
            THEN /\ cpc' = [cpc EXCEPT ![c] = "c_input"]
                 /\ csent' = [csent EXCEPT ![c].verified = TRUE]
                 /\ Release(c)
                 /\ UNCHANGED cresult
            ELSE CmdReturn(c, "false") /\ UNCHANGED csent
  /\ UNCHANGED <<clock, horizon, faults, restVars, sideVars, uiVars, scanVars, dedupVars, ctarget, cbest,
                 ghostVars>>

\* lines 1298-1306: find_input_box
CmdInput(c) ==
  /\ cpc[c] = "c_input"
  /\ \E o \in Outcomes \cup (IF faults THEN {"none"} ELSE {}) :
       IF o = "raise" THEN CmdReturn(c, "raised")
       ELSE IF o = "none" THEN CmdReturn(c, "false")
       ELSE /\ cpc' = [cpc EXCEPT ![c] = "c_paste"]
            /\ UNCHANGED <<lockVars, cresult>>
  /\ UNCHANGED <<clock, horizon, faults, restVars, sideVars, uiVars, scanVars, dedupVars, ctarget, cbest,
                 csent, ghostVars>>

\* lines 1309-1315: _set_edit_value catches what the paste raises
CmdPaste(c) ==
  /\ cpc[c] = "c_paste"
  /\ \E o \in Outcomes :
       IF o = "raise" THEN CmdReturn(c, "false") /\ UNCHANGED csent
       ELSE /\ cpc' = [cpc EXCEPT ![c] = "c_send"]
            /\ csent' = [csent EXCEPT ![c].pasted = TRUE, ![c].chat = activeChat]
            /\ UNCHANGED <<lockVars, cresult>>
  /\ UNCHANGED <<clock, horizon, faults, restVars, sideVars, uiVars, scanVars, dedupVars, ctarget, cbest,
                 ghostVars>>

\* what find_send_button returns (it catches whatever its searches raise)
ButtonResults == IF faults THEN {"found", "none"} ELSE {"found"}

\* the send made without the Enter key when there is no button to click
SendResultNoFallback(btn, click, enter) ==
  IF btn = "found" /\ click = "ok"
  THEN [ret |-> "true", clicks |-> 1, enters |-> 0]
  ELSE IF btn = "found"
       THEN [ret |-> IF enter = "ok" THEN "true" ELSE "false", clicks |-> 1, enters |-> 1]
       ELSE [ret |-> "false", clicks |-> 0, enters |-> 0]

\* lines 1318-1334: the value returned, the clicks made on the send button
\* and the Enter keys injected, given what the button search, the click and
\* the key injection do
SendResult(btn, click, enter) ==
  IF btn = "found" /\ click = "ok"
  THEN [ret |-> "true", clicks |-> 1, enters |-> 0]
  ELSE [ret |-> IF enter = "ok" THEN "true" ELSE "false",
        clicks |-> IF btn = "found" THEN 1 ELSE 0, enters |-> 1]

\* lines 1318-1334: the send button is clicked, or Enter is injected
CmdSend(c) ==
  /\ cpc[c] = "c_send"
  /\ \E b \in ButtonResults, k \in Outcomes, e \in Outcomes :
       LET click == IF b = "found" THEN k ELSE "none"
           enter == IF b = "found" /\ k = "ok" THEN "none" ELSE e
           r == SendResult(b, click, enter)
       IN  /\ CmdReturn(c, r.ret)
           /\ csent' = [csent EXCEPT ![c].btn = b, ![c].click = click,
                                     ![c].enter = enter, ![c].clicks = r.clicks,
                                     ![c].enters = r.enters]
  /\ UNCHANGED <<clock, horizon, faults, restVars, sideVars, uiVars, scanVars, dedupVars, ctarget, cbest,
                 ghostVars>>

Command(c) ==
  \/ CmdStart(c) \/ CmdAcquire(c) \/ CmdGetWindow(c) \/ CmdEnsure(c)
  \/ CmdClick(c) \/ CmdVerify(c) \/ CmdInput(c) \/ CmdPaste(c) \/ CmdSend(c)

\* ------------------------------------------- Reporter and JavaClient
\* what one POST to the receiver comes to: a status code, or no response
TransportError == 0

Responses == {200, 299, 300, 503, TransportError}

\* a success test that never holds
IsSuccessNever(status) == FALSE

\* line 325
IsSuccess(status) == 200 <= status /\ status < 300

\* a loop that runs once more
AttemptRangeLonger(retry_max) == 0..(retry_max + 1)

\* line 318: range(self._cfg.java_retry_max + 1)
AttemptRange(retry_max) == 0..retry_max

\* the payload put back on the queue when it was not delivered
AfterPostRequeue(q, payload, delivered) ==
  IF delivered THEN q ELSE Append(q, payload)

\* lines 1388-1395: the queue once post_message has returned; Reporter.run
\* keeps no reference to the payload
AfterPost(q, payload, delivered) == q

\* the n-th payload handed to the reporter
Payload(n) == MkMsg(<<"a">>, <<"a">>, ToString(n))

\* the place in rhist of the payload the reporter holds: the first one of
\* its kind that post_message has not returned for, the first of all if none
PayloadNo(payload) ==
  LET all == {n \in 1..Len(rhist) : rhist[n].payload = payload}
      open == {n \in all : ~rhist[n].done}
      S == IF open # {} THEN open ELSE all
  IN  CHOOSE n \in S : \A m \in S : n <= m

\* line 1385: the empty dict that stop() puts on the queue
Poison == [poison |-> TRUE]

\* Reporter.submit, called by _fetch_and_report (line 1482)
Submit ==
  /\ ~stopping
  /\ submitted < MaxReports
  /\ submitted' = submitted + 1
  /\ reportQ' = ReporterSubmit(reportQ, Payload(submitted + 1))
  /\ rhist' = Append(rhist, NewHistory(Payload(submitted + 1)))
  /\ UNCHANGED <<clock, horizon, faults, restVars, uiVars, lockVars, scanVars, processed_sigs,
                 pollQ, cmdVars, ghostVars, java_retry_max, rpc, rpayload, attempt,
                 pollVars, httpVars, winVars>>

\* a test that never sees the event set
StopRequestedNever(flag) == FALSE

\* line 1388: self._stopping.is_set()
StopRequested(flag) == flag

\* line 1388: the test of the while loop
ReporterLoop ==
  /\ rpc = "r_top"
  /\ rpc' = IF StopRequested(stopping) THEN "r_exit" ELSE "r_get"
  /\ UNCHANGED <<clock, horizon, faults, restVars, uiVars, lockVars, scanVars, dedupVars,
                 cmdVars, ghostVars, java_retry_max, rpayload, attempt, rhist,
                 submitted, pollVars, httpVars, winVars>>

\* lines 1389-1393: self._q.get() returns; an empty payload sends the loop
\* back to its test, any other enters post_message
ReporterGet ==
  /\ rpc = "r_get"
  /\ reportQ # <<>>
  /\ LET got == QueueGet(reportQ)
     IN  /\ rpayload' = got.item
         /\ reportQ' = got.rest
         /\ rpc' = IF got.item # Poison /\ 0 \in AttemptRange(java_retry_max)
                   THEN "r_post" ELSE "r_top"
  /\ attempt' = 0
  /\ UNCHANGED <<clock, horizon, faults, restVars, uiVars, lockVars, scanVars, processed_sigs,
                 pollQ, cmdVars, ghostVars, java_retry_max, rhist, submitted,
                 pollVars, httpVars, winVars>>

\* post_message returns to Reporter.run, which goes back to the loop test
PostReturn(delivered) ==
  /\ rpc' = "r_top"
  /\ reportQ' = AfterPost(reportQ, rpayload, delivered)
  /\ UNCHANGED attempt

\* lines 319-333: one attempt and what follows it
PostAttempt ==
  /\ rpc = "r_post"
  /\ \E status \in Responses :
       LET n == PayloadNo(rpayload)
           h == rhist[n]
           good == 200 <= status /\ status <= 299
           h1 == [h EXCEPT !.attempts = @ + 1,
                           !.fails = IF good THEN @ ELSE @ + 1,
                           !.afterOk = IF h.ok THEN @ + 1 ELSE @,
                           !.late = IF h.done THEN @ + 1 ELSE @,
                           !.ok = @ \/ good]
       IN  IF IsSuccess(status)
           THEN /\ PostReturn(TRUE)
                /\ rhist' = [rhist EXCEPT ![n] = [h1 EXCEPT !.done = TRUE]]
           ELSE IF attempt < java_retry_max
                THEN /\ rpc' = "r_backoff"
                     /\ rhist' = [rhist EXCEPT ![n] = h1]
                     /\ UNCHANGED <<attempt, reportQ>>
           ELSE IF attempt + 1 \in AttemptRange(java_retry_max)
                THEN /\ attempt' = attempt + 1
                     /\ rhist' = [rhist EXCEPT ![n] = h1]
                     /\ UNCHANGED <<rpc, reportQ>>
           ELSE /\ PostReturn(FALSE)
                /\ rhist' = [rhist EXCEPT ![n] = [h1 EXCEPT !.done = TRUE]]
  /\ UNCHANGED <<clock, horizon, faults, restVars, uiVars, lockVars, scanVars, processed_sigs,
                 pollQ, cmdVars, ghostVars, java_retry_max, rpayload, submitted,
                 pollVars, httpVars, winVars>>

\* lines 331-333: the backoff sleep ends and the loop goes on
PostBackoff ==
  /\ rpc = "r_backoff"
  /\ IF attempt + 1 \in AttemptRange(java_retry_max)
     THEN /\ attempt' = attempt + 1
          /\ rpc' = "r_post"
          /\ UNCHANGED <<reportQ, rhist>>
     ELSE /\ PostReturn(FALSE)
          /\ rhist' = [rhist EXCEPT ![PayloadNo(rpayload)].done = TRUE]
  /\ UNCHANGED <<clock, horizon, faults, restVars, uiVars, lockVars, scanVars, processed_sigs,
                 pollQ, cmdVars, ghostVars, java_retry_max, rpayload, submitted,
                 pollVars, httpVars, winVars>>

\* Reporter.run
ReporterRun == ReporterLoop \/ ReporterGet \/ PostAttempt \/ PostBackoff

Reporting == Submit \/ ReporterRun

\* Reporter.stop (lines 1383-1385), called once, by main on its way out
ReporterStop ==
  /\ ~stopping
  /\ stopping' = TRUE
  /\ reportQ' = ReporterSubmit(reportQ, Poison)
  /\ UNCHANGED <<clock, horizon, faults, pureVars, server_up, sigint, uiVars, lockVars,
                 scanVars, processed_sigs, pollQ, cmdVars, ghostVars, reportVars,
                 pollVars, httpVars, winVars>>

\* ---------------------------------------------------- the interrupt in main
\* positions of the main thread inside a try block closed by a bare
\* `except:` (lines 519-522 and 540-543 in _find_main_window, 761-767 and
\* 799-812 in _locate_message_list, 1249-1252 in _extract_message_from_item)
SwallowSites == {"a_win_in", "u_title_win", "f_in"}

\* KeyboardInterrupt is raised in the main thread where it stands.  Inside
\* one of the bare try blocks it is caught there and the cycle goes on;
\* anywhere else no handler of the cycle catches it (they name Exception),
\* the with blocks release the lock, and main (lines 1745-1749) stops the
\* reporter and the command server and returns.
Interrupt ==
  /\ ~sigint.sent
  /\ pc # "stopped"
  /\ \/ /\ sigint' = [sent |-> TRUE, at |-> pc, fate |-> "raised"]
        /\ pc' = "stopped"
        /\ lockOwner' = IF lockOwner = ScanT THEN NoOwner ELSE lockOwner
        /\ lockDepth' = IF lockOwner = ScanT THEN 0 ELSE lockDepth
        /\ stopping' = TRUE
        /\ reportQ' = ReporterSubmit(reportQ, Poison)
        /\ server_up' = FALSE
     \/ /\ pc \in SwallowSites
        /\ sigint' = [sent |-> TRUE, at |-> pc, fate |-> "swallowed"]
        /\ UNCHANGED <<pc, lockVars, stopping, reportQ, server_up>>
  /\ UNCHANGED <<clock, horizon, faults, pureVars, uiVars, now, next_unread_scan_time,
                 unread_max_per_round, scanWin, contact, unread, ui, messages, mi,
                 fetchRet, processed_sigs, pollQ, cmdVars, ghostVars, reportVars,
                 pollVars, httpVars, winVars>>

\* ------------------------------------------------------------- Poller
\* Poller.enqueue, called by _fetch_and_report (line 1480)
Enqueue ==
  /\ enqueued < MaxEnqueued
  /\ enqueued' = enqueued + 1
  /\ pollQ' = PollerEnqueue(pollQ, MkMsg(<<"a">>, <<"a">>, ToString(enqueued + 1)))
  /\ UNCHANGED <<clock, horizon, faults, restVars, uiVars, lockVars, scanVars, processed_sigs,
                 reportQ, cmdVars, ghostVars, reportVars, ppc, pmsgs, preturned,
                 httpVars, winVars>>

\* a poll that waits until nobody is in the UI tree
PollGateHeld(p) == lockOwner = NoOwner

\* lines 1505-1521: poll has no `with self._uia_lock` and calls nothing of
\* WeChatUI; what it waits for is the queue alone
PollGate(p) == TRUE

\* do_GET line 1552: poller.poll() is entered; line 1506
PollStart(p) ==
  /\ ppc[p] = "p_idle"
  /\ ppc' = [ppc EXCEPT ![p] = "p_wait"]
  /\ pmsgs' = [pmsgs EXCEPT ![p] = <<>>]
  /\ UNCHANGED <<clock, horizon, faults, restVars, uiVars, lockVars, scanVars, dedupVars,
                 cmdVars, ghostVars, reportVars, enqueued, preturned, httpVars,
                 winVars>>

\* lines 1512-1513: the blocking get returns the first message, or times out
\* on a queue that stayed empty (lines 1517-1519)
PollFirst(p) ==
  /\ ppc[p] = "p_wait"
  /\ PollGate(p)
  /\ IF pollQ # <<>>
     THEN /\ pmsgs' = [pmsgs EXCEPT ![p] = Append(@, QueueGet(pollQ).item)]
          /\ pollQ' = QueueGet(pollQ).rest
          /\ ppc' = [ppc EXCEPT ![p] = "p_drain"]
          /\ UNCHANGED preturned
     ELSE /\ preturned' = [preturned EXCEPT ![p] = pmsgs[p]]
          /\ ppc' = [ppc EXCEPT ![p] = "p_done"]
          /\ UNCHANGED <<pmsgs, pollQ>>
  /\ UNCHANGED <<clock, horizon, faults, restVars, uiVars, lockVars, scanVars, processed_sigs,
                 reportQ, cmdVars, ghostVars, reportVars, enqueued, httpVars,
                 winVars>>

\* lines 1515-1519: one get_nowait; queue.Empty ends the loop and the list
\* is returned to do_GET
PollDrain(p) ==
  /\ ppc[p] = "p_drain"
  /\ PollGate(p)
  /\ IF pollQ # <<>>
     THEN /\ pmsgs' = [pmsgs EXCEPT ![p] = Append(@, QueueGet(pollQ).item)]
          /\ pollQ' = QueueGet(pollQ).rest
          /\ UNCHANGED <<ppc, preturned>>
     ELSE /\ preturned' = [preturned EXCEPT ![p] = pmsgs[p]]
          /\ ppc' = [ppc EXCEPT ![p] = "p_done"]
          /\ UNCHANGED <<pmsgs, pollQ>>
  /\ UNCHANGED <<clock, horizon, faults, restVars, uiVars, lockVars, scanVars, processed_sigs,
                 reportQ, cmdVars, ghostVars, reportVars, enqueued, httpVars,
                 winVars>>

Polling == Enqueue \/ \E p \in Polls : PollStart(p) \/ PollFirst(p) \/ PollDrain(p)

\* ------------------------------------------------ CommandHandler.do_POST
\* a POST /command request: the Content-Length, what json.loads makes of
\* the body ("invalid": it raises; "other": a list, a string, a number or
\* null; "object": a dict), and the dict's target, if it has one
Request(length, json, has_target, target) ==
  [length |-> length, json |-> json, has_target |-> has_target, target |-> target]

Requests ==
  {Request(0, "object", TRUE, <<"a">>), Request(2, "invalid", FALSE, <<>>),
   Request(2, "other", FALSE, <<>>), Request(9, "object", FALSE, <<>>),
   Request(9, "object", TRUE, <<>>), Request(9, "object", TRUE, <<" ">>),
   Request(9, "object", TRUE, <<"a">>)}

\* what ui.set_text_and_send comes to for do_POST
DispatchOutcomes == {"true", "false", "raised"}

Response(status, ok, key, value) ==
  [status |-> status, ok |-> ok, key |-> key, value |-> value]

Handled(req, responses, dispatched) ==
  [req |-> req, responses |-> responses, dispatched |-> dispatched]

\* lines 1577-1602 for one request: the responses written and the number of
\* calls of the dispatcher.  data.get on a value that is not a dict raises
\* AttributeError outside every except clause: do_POST is left by the
\* exception and nothing is written
DoPost(req, outcome) ==
  IF req.length <= 0
  THEN Handled(req, <<Response(400, FALSE, "error", "empty_body")>>, 0)
  ELSE IF req.json = "invalid"
  THEN Handled(req, <<Response(400, FALSE, "error", "invalid_json")>>, 0)
  ELSE IF req.json # "object"
  THEN Handled(req, <<>>, 0)
  ELSE IF Strip(IF req.has_target THEN req.target ELSE <<>>) = <<>>
  THEN Handled(req, <<Response(400, FALSE, "error", "target_required")>>, 0)
  ELSE IF outcome = "raised"
  THEN Handled(req, <<Response(500, FALSE, "error", "send_failed")>>, 1)
  ELSE Handled(req, <<Response(200, TRUE, "success", outcome)>>, 1)

\* do_POST for a request whose path is /command
HandlePost ==
  /\ Len(hlog) < MaxRequests
  /\ \E req \in Requests, outcome \in DispatchOutcomes :
       hlog' = Append(hlog, DoPost(req, outcome))
  /\ UNCHANGED <<clock, horizon, faults, restVars, uiVars, lockVars, scanVars, dedupVars,
                 cmdVars, ghostVars, reportVars, pollVars, winVars>>

\* do_GET lines 1537-1539 for the path /health: the answer is written at
\* once; `gate` keeps who was in the UI tree at that moment
HandleHealth ==
  /\ Len(hlog) < MaxRequests
  /\ hlog' = Append(hlog, [req |-> "/health",
                           responses |-> <<Response(200, TRUE, "none", "none")>>,
                           dispatched |-> 0, gate |-> lockOwner])
  /\ UNCHANGED <<clock, horizon, faults, restVars, uiVars, lockVars, scanVars, dedupVars,
                 cmdVars, ghostVars, reportVars, pollVars, winVars>>

\* ------------------------------------ WeChatUI.get_main_window and below
\* The application's top-level window.  id numbers the windows it has opened;
\* cls: the class name is window_class_name; hung: IsHungAppWindow reports
\* it; uia: a UIA Exists(0, 0) on it succeeds; proc: tasklist shows its
\* process as WeChat.exe or Weixin.exe.  Its title is window_name.
Window(id, open, cls, hung, uia, proc) ==
  [id |-> id, open |-> open, cls |-> cls, hung |-> hung, uia |-> uia, proc |-> proc]

NoWindow == Window(0, FALSE, FALSE, FALSE, FALSE, FALSE)

\* a UIA control for window id, and the strategy that produced it
Handle(id, via) == [id |-> id, via |-> via]

NoHandle == Handle(0, "none")

\* strategy 0 (lines 507-527): FindWindowW, the hung test, ControlFromHandle
\* and Exists; the number of UIA calls it makes
Strategy0(env) ==
  IF env.open /\ env.cls /\ ~env.hung
  THEN [win |-> IF env.uia THEN Handle(env.id, "handle") ELSE NoHandle, uia |-> 1]
  ELSE [win |-> NoHandle, uia |-> 0]

\* strategy 1 (lines 529-546): the UIA search among the desktop's children
Strategy1(env) ==
  [win |-> IF env.open /\ env.cls /\ env.uia THEN Handle(env.id, "global")
           ELSE NoHandle,
   uia |-> 1]

\* strategy 2 (lines 548-584): per process id, by class and name, then by
\* name alone
Strategy2(env) ==
  IF env.open /\ env.proc
  THEN IF env.cls /\ env.uia THEN [win |-> Handle(env.id, "pid"), uia |-> 1]
       ELSE [win |-> IF env.uia THEN Handle(env.id, "pid_loose") ELSE NoHandle,
             uia |-> 2]
  ELSE [win |-> NoHandle, uia |-> 0]

\* WeChatUI._find_main_window: the window returned (NoHandle for None) and
\* the number of UIA calls made on the way
FindMainWindow(env) ==
  LET s0 == Strategy0(env)
      s1 == Strategy1(env)
      s2 == Strategy2(env)
  IN  IF s0.win # NoHandle THEN s0
      ELSE IF s1.win # NoHandle THEN [win |-> s1.win, uia |-> s0.uia + s1.uia]
      ELSE [win |-> s2.win, uia |-> s0.uia + s1.uia + s2.uia]

\* what self._cached_main.Exists(0, 0) can come to
ExistsResults(h, env) ==
  IF env.open /\ env.id = h.id /\ env.uia THEN {"true"} ELSE {"false", "raise"}

\* a check that only an exception fails
CheckPassedUnlessRaised(r) == r # "raise"

\* line 594
CheckPassed(r) == r = "true"

NoRequest ==
  [req |-> FALSE, hung |-> FALSE, before |-> NoHandle, check |-> "none",
   resolved |-> FALSE, fresh |-> NoHandle, returned |-> NoHandle, uia |-> 0,
   enumerated |-> FALSE]

\* the desktop changes: the window closes, a new one opens, or the one
\* there starts or stops hanging or answering UIA
WindowChange ==
  /\ \/ /\ win_env.open
        /\ win_env' = Window(win_env.id, FALSE, FALSE, FALSE, FALSE, FALSE)
     \/ /\ ~win_env.open
        /\ win_env.id < MaxWindows
        /\ \E cls, hung, uia, proc \in BOOLEAN :
             win_env' = Window(win_env.id + 1, TRUE, cls, hung, uia, proc)
     \/ /\ win_env.open
        /\ \E hung, uia \in BOOLEAN :
             /\ <<hung, uia>> # <<win_env.hung, win_env.uia>>
             /\ win_env' = [win_env EXCEPT !.hung = hung, !.uia = uia]
  /\ UNCHANGED <<clock, horizon, faults, restVars, uiVars, lockVars, scanVars, dedupVars,
                 cmdVars, ghostVars, reportVars, pollVars, httpVars, cached_main,
                 tree_logged_handle, wlast>>

\* WeChatUI.get_main_window (lines 590-603), the lock taken and released
GetMainWindow ==
  /\ LockFree(ScanT)
  /\ \E r \in IF cached_main = NoHandle THEN {"none"}
               ELSE ExistsResults(cached_main, win_env) :
       LET found == FindMainWindow(win_env)
           checks == IF cached_main = NoHandle THEN 0 ELSE 1
       IN  IF cached_main # NoHandle /\ CheckPassed(r)
           THEN /\ wlast' = [req |-> TRUE, hung |-> win_env.open /\ win_env.hung,
                             before |-> cached_main, check |-> r,
                             resolved |-> FALSE, fresh |-> NoHandle,
                             returned |-> cached_main, uia |-> checks,
                             enumerated |-> FALSE]
                /\ UNCHANGED <<cached_main, tree_logged_handle>>
           ELSE /\ cached_main' = found.win
                /\ tree_logged_handle' =
                     IF found.win # NoHandle THEN found.win.id ELSE tree_logged_handle
                /\ wlast' = [req |-> TRUE, hung |-> win_env.open /\ win_env.hung,
                             before |-> cached_main, check |-> r,
                             resolved |-> TRUE, fresh |-> found.win,
                             returned |-> found.win, uia |-> checks + found.uia,
                             enumerated |-> /\ found.win # NoHandle
                                            /\ found.win.id # tree_logged_handle]
  /\ UNCHANGED <<clock, horizon, faults, restVars, uiVars, lockVars, scanVars, dedupVars,
                 cmdVars, ghostVars, reportVars, pollVars, httpVars, win_env>>

\* ---------------------------------------------------------- initial states
NoHistory ==
  [cycNext |-> 0, active |-> FALSE, unreadScan |-> FALSE, clicked |-> <<>>,
   raised |-> FALSE, reset |-> FALSE, passEnd |-> -1, fetchSrc |-> NoChat,
   fetchIntr |-> FALSE, epoch |-> {}, clears |-> 0, everRaised |-> FALSE,
   passClear |-> FALSE]

\* one chat open, one message in each chat
TwoChats ==
  [t \in Titles \cup {NoChat} |->
     IF t = <<"a">> THEN <<OtherText(<<"a">>, "1")>>
     ELSE IF t = <<"b">> THEN <<OtherText(<<"b">>, "2")>>
     ELSE <<>>]

\* the reporter waits on its empty queue, no request has come in, no window
\* has been looked up
ReporterIdle ==
  /\ rpc = "r_top" /\ rpayload = NoMsg /\ attempt = 0
  /\ rhist = <<>> /\ submitted = 0

PollerIdle ==
  /\ enqueued = 0
  /\ ppc = [p \in Polls |-> "p_idle"]
  /\ pmsgs = [p \in Polls |-> <<>>]
  /\ preturned = [p \in Polls |-> <<>>]

HttpIdle == hlog = <<>>

WindowIdle ==
  /\ win_env = NoWindow
  /\ cached_main = NoHandle
  /\ tree_logged_handle = 0
  /\ wlast = NoRequest

\* no function is under examination
NoInput == [fn |-> "none"]

NoValue == [done |-> FALSE, value |-> <<>>]

Value(v) == [done |-> TRUE, value |-> v]

PureIdle == pin = NoInput /\ pout = NoValue

NoSignal == [sent |-> FALSE, at |-> "none", fate |-> "none"]

\* main has started the reporter and the command server (lines 1733, 1739)
\* and no interrupt has been sent
Running == stopping = FALSE /\ server_up = TRUE /\ sigint = NoSignal

NoSideActivity ==
  /\ java_retry_max = java_retry_max_default
  /\ ReporterIdle /\ PollerIdle /\ HttpIdle /\ WindowIdle
  /\ PureIdle /\ Running

\* the scheduler has not started and never will: the desk as main finds it
QuietDesk ==
  /\ horizon = 0
  /\ faults = FALSE
  /\ activeChat = <<"a">>
  /\ chatMsgs = TwoChats
  /\ sessions = <<ReadEntry(<<"a">>), UnreadByName(<<"b">>), NamelessUnread(NoChat)>>
  /\ unread_max_per_round = unread_max_default
  /\ next_unread_scan_time = clock + first_unread_delay_min
  /\ processed_sigs = {}
  /\ gs = NoHistory

\* what every specification starts from: Listener.__init__, WeChatUI.__init__
\* and the threads of main before the first cycle
InitCommon ==
  /\ clock = 0
  /\ lockOwner = NoOwner /\ lockDepth = 0
  /\ pc = "cycle" /\ now = 0
  /\ scanWin = "none" /\ contact = <<>>
  /\ unread = <<>> /\ ui = 1
  /\ messages = <<>> /\ mi = 1 /\ fetchRet = "u_check"
  /\ pollQ = <<>> /\ reportQ = <<>>
  /\ cpc = [c \in Cmds |-> "c_idle"]
  /\ ctarget = [c \in Cmds |-> NoChat]
  /\ cbest = [c \in Cmds |-> 0]
  /\ cresult = [c \in Cmds |-> NoResult]
  /\ csent = [c \in Cmds |-> NoSent]
  /\ navSinceSelect = FALSE
  /\ intruded = [c \in Cmds |-> FALSE]

Init ==
  /\ InitCommon
  /\ NoSideActivity
  /\ horizon = GateHorizon
  /\ faults = FALSE
  /\ activeChat = <<"a">>
  /\ chatMsgs = TwoChats
  /\ sessions = <<ReadEntry(<<"a">>), UnreadByName(<<"b">>), NamelessUnread(NoChat)>>
  /\ unread_max_per_round = unread_max_default
  /\ next_unread_scan_time \in {clock + first_unread_delay_min,
                                clock + first_unread_delay_max}
  /\ processed_sigs = {}
  /\ gs = NoHistory

Next == Scanner \/ \E c \in Cmds : Command(c)

Spec == Init /\ [][Next]_vars

\* the scheduler thread alone, with UI operations that may fail
InitScan ==
  /\ InitCommon
  /\ NoSideActivity
  /\ horizon = ScanHorizon
  /\ faults = TRUE
  /\ activeChat = <<"a">>
  /\ chatMsgs = TwoChats
  /\ sessions = <<ReadEntry(<<"a">>), UnreadByName(<<"b">>), NamelessUnread(NoChat)>>
  /\ unread_max_per_round = unread_max_default
  /\ next_unread_scan_time \in {clock + first_unread_delay_min,
                                clock + first_unread_delay_max}
  /\ processed_sigs = {}
  /\ gs = NoHistory

NextScan == Scanner

SpecScan == InitScan /\ [][NextScan]_vars

\* ------------------- the reporter thread alone, several retry budgets
InitReport ==
  /\ InitCommon
  /\ QuietDesk
  /\ java_retry_max \in 0..MaxRetry
  /\ ReporterIdle /\ PollerIdle /\ HttpIdle /\ WindowIdle
  /\ PureIdle /\ Running

NextReport == Reporting

SpecReport == InitReport /\ [][NextReport]_vars

\* ----------------------------- the threads of the inbound HTTP surface
InitHttp ==
  /\ InitCommon
  /\ QuietDesk
  /\ NoSideActivity

NextHttp == Polling \/ HandlePost

SpecHttp == InitHttp /\ [][NextHttp]_vars

\* ------- commands sent to a scheduler that goes on cycling without end
\* time.time() (line 1415) counts from an origin that nothing in the program
\* depends on: the cycle compares `now` with next_unread_scan_time and adds
\* intervals to it.  Past the horizon the origin is moved to the present,
\* between two cycles, so that the cycles go on for ever over finitely many
\* states; a time of the next scan that has passed stays one that has passed.
Rebase ==
  /\ pc = "cycle"
  /\ clock > horizon
  /\ clock' = 0
  /\ now' = 0
  /\ next_unread_scan_time' = Max(next_unread_scan_time - clock, 0)
  /\ gs' = [gs EXCEPT !.cycNext = Max(@ - clock, 0),
                      !.passEnd = IF @ = -1 THEN @ ELSE Max(@ - clock, 0)]
  /\ UNCHANGED <<horizon, faults, restVars, sideVars, uiVars, lockVars, pc,
                 unread_max_per_round, scanWin, contact, unread, ui, messages,
                 mi, fetchRet, dedupVars, cmdVars, navSinceSelect, intruded>>

\* the steps of a command once do_POST has called set_text_and_send
CmdRun(c) ==
  \/ CmdAcquire(c) \/ CmdGetWindow(c) \/ CmdEnsure(c) \/ CmdClick(c)
  \/ CmdVerify(c) \/ CmdInput(c) \/ CmdPaste(c) \/ CmdSend(c)

InitLive ==
  /\ InitCommon
  /\ NoSideActivity
  /\ horizon = LiveHorizon
  /\ faults = FALSE
  /\ activeChat = <<"a">>
  /\ chatMsgs = TwoChats
  /\ sessions = <<ReadEntry(<<"a">>), UnreadByName(<<"b">>), NamelessUnread(NoChat)>>
  /\ unread_max_per_round = unread_max_default
  /\ next_unread_scan_time = clock + first_unread_delay_min
  /\ processed_sigs = {}
  /\ gs = NoHistory

NextLive == Scanner \/ Rebase \/ \E c \in Cmds : Command(c)

\* every UI operation ends, so a thread that can take a step takes one
\* (weak fairness); a thread waiting at `with self._uia_lock` gets the lock
\* if it is free again and again (strong fairness of the acquisition)
SpecLive ==
  /\ InitLive /\ [][NextLive]_vars
  /\ WF_vars(Scanner \/ Rebase)
  /\ \A c \in Cmds : WF_vars(CmdRun(c)) /\ SF_vars(CmdAcquire(c))

\* ---------- GET requests served while the scheduler goes through the gate
InitGets ==
  /\ InitCommon
  /\ NoSideActivity
  /\ horizon = GetsHorizon
  /\ faults = FALSE
  /\ activeChat = <<"a">>
  /\ chatMsgs = TwoChats
  /\ sessions = <<ReadEntry(<<"a">>), UnreadByName(<<"b">>), NamelessUnread(NoChat)>>
  /\ unread_max_per_round = unread_max_default
  /\ next_unread_scan_time = clock + first_unread_delay_min
  /\ processed_sigs = {}
  /\ gs = NoHistory

NextGets ==
  \/ Scanner
  \/ \E p \in Polls : PollStart(p) \/ PollFirst(p) \/ PollDrain(p)
  \/ HandleHealth

SpecGets == InitGets /\ [][NextGets]_vars

\* ------------------------- window lookups on a desktop that changes
InitWindow ==
  /\ InitCommon
  /\ QuietDesk
  /\ NoSideActivity

NextWindow == WindowChange \/ GetMainWindow

SpecWindow == InitWindow /\ [][NextWindow]_vars

\* ------------------- the dispatcher alone, with UI operations that fail
SendSessions ==
  {<<ReadEntry(<<"a">>), UnreadByName(<<"b">>), NamelessUnread(NoChat)>>,
   <<ReadEntry(<<"a">>)>>,
   <<ReadEntry(<<"a">>), SessionItem(<<"b">>, <<>>, <<"a">>)>>,
   <<UnreadByName(<<"b">>), SessionItem(<<"a", "b">>, <<>>, <<"b">>), ReadEntry(<<"a">>)>>}

InitSend ==
  /\ InitCommon
  /\ NoSideActivity
  /\ horizon = 0
  /\ faults = TRUE
  /\ activeChat \in Titles \cup {NoChat}
  /\ chatMsgs = TwoChats
  /\ sessions \in SendSessions
  /\ unread_max_per_round = unread_max_default
  /\ next_unread_scan_time = clock + first_unread_delay_min
  /\ processed_sigs = {}
  /\ gs = NoHistory

NextSend == \E c \in Cmds : Command(c)

SpecSend == InitSend /\ [][NextSend]_vars

\* ---- the scheduler with a growing message list and a used signature set
\* the signatures recorded for n earlier messages
FillerSigs(n) ==
  {MessageSig(MkMsg(<<"a">>, <<"a">>, ToString(1000 + k))) : k \in 1..n}

\* children the open chat's message list can gain: a repeat of a bubble
\* already there (same runtime id, same text), a fresh bubble of the partner,
\* one of the user, a bubble whose GetRuntimeId raises, a time separator
ArrivingItems ==
  {OtherText(<<"a">>, "1"), OtherText(<<"b">>, "3"), SelfText(<<"a">>, "4"),
   MsgItem(<<"b">>, "ChatTextItemView", <<>>, NoId, 3, 0), TimeItem}

\* line 1222: the children of the message list are whatever the chat holds
\* when the scheduler is about to read it
Arrive ==
  /\ pc = "f_lock"
  /\ activeChat \in Titles
  /\ Len(chatMsgs[<<"a">>]) + Len(chatMsgs[<<"b">>]) < 2 + MaxArrivals
  /\ \E item \in ArrivingItems :
       chatMsgs' = [chatMsgs EXCEPT ![activeChat] = Append(@, item)]
  /\ UNCHANGED <<clock, horizon, faults, restVars, sideVars, activeChat, sessions, lockVars, scanVars,
                 dedupVars, cmdVars, ghostVars>>

InitDedup ==
  /\ InitCommon
  /\ NoSideActivity
  /\ horizon = GateHorizon
  /\ faults = FALSE
  /\ activeChat = <<"a">>
  /\ chatMsgs = TwoChats
  /\ sessions = <<ReadEntry(<<"a">>), UnreadByName(<<"b">>), NamelessUnread(NoChat)>>
  /\ unread_max_per_round = unread_max_default
  /\ next_unread_scan_time \in {clock + first_unread_delay_min,
                                clock + first_unread_delay_max}
  /\ \E n \in {0, processed_sigs_limit - 1, processed_sigs_limit} :
       /\ processed_sigs = FillerSigs(n)
       /\ gs = [NoHistory EXCEPT !.epoch = FillerSigs(n)]

NextDedup == Scanner \/ Arrive

SpecDedup == InitDedup /\ [][NextDedup]_vars

\* ------------- the scheduler in front of long session lists, several caps
\* list positions that may hold an unread entry: the first, the last one
\* find_unread_sessions looks at, the one after it, and the end of the list
UnreadSpots == {1, session_scan_head, session_scan_head + 1, MaxSessions}

UnreadEntryAt(i) ==
  IF i = 1 THEN UnreadByName(<<"b">>)
  ELSE IF i = session_scan_head THEN NamelessUnread(NoChat)
  ELSE IF i = session_scan_head + 1 THEN UnreadByBadge(<<"a">>)
  ELSE UnreadByName(<<"a">>)

SessionList(S) ==
  [i \in 1..MaxSessions |-> IF i \in S THEN UnreadEntryAt(i) ELSE ReadEntry(<<"a">>)]

InitUnread ==
  /\ InitCommon
  /\ NoSideActivity
  /\ horizon = GateHorizon
  /\ faults = FALSE
  /\ activeChat = <<"a">>
  /\ chatMsgs = TwoChats
  /\ \E S \in SUBSET UnreadSpots : sessions = SessionList(S)
  /\ unread_max_per_round \in 0..MaxUnread
  /\ next_unread_scan_time \in {clock + first_unread_delay_min,
                                clock + first_unread_delay_max}
  /\ processed_sigs = {}
  /\ gs = NoHistory

NextUnread == Scanner

SpecUnread == InitUnread /\ [][NextUnread]_vars

\* --------- the scheduler, the reporter behind it, and an interrupt
InitStop ==
  /\ InitCommon
  /\ horizon = StopHorizon
  /\ faults = FALSE
  /\ activeChat = <<"a">>
  /\ chatMsgs = [TwoChats EXCEPT ![<<"a">>] = Append(@, OtherText(<<"b">>, "3"))]
  /\ sessions = <<ReadEntry(<<"a">>), UnreadByName(<<"b">>), NamelessUnread(NoChat)>>
  /\ unread_max_per_round = unread_max_default
  /\ next_unread_scan_time = clock + first_unread_delay_min
  /\ processed_sigs = {}
  /\ gs = NoHistory
  /\ java_retry_max = 1
  /\ ReporterIdle /\ PollerIdle /\ HttpIdle /\ WindowIdle
  /\ PureIdle /\ Running

NextStop == Scanner \/ ReporterRun \/ Interrupt

SpecStop == InitStop /\ [][NextStop]_vars

\* ------------------------ the reporter thread and the call of stop()
InitReportStop == InitReport

NextReportStop == Reporting \/ ReporterStop

\* Reporter.run is a thread of its own and post_message returns
SpecReportStop ==
  InitReportStop /\ [][NextReportStop]_vars /\ WF_vars(ReporterRun)

\* ------------------------------ the unread test on one item at a time
\* Names an item can have: none, a contact, a number, the new-message text
\* without and with a count, the unread text, a count apart from the text
OwnNames ==
  {<<>>, <<"a">>, <<"1">>, <<"N">>, <<"1", "N">>, <<"a", "U">>, <<"1", " ", "N">>,
   <<"a", "1">>}

\* Names a descendant can have
BadgeNames ==
  {<<>>, <<"a">>, <<"1">>, <<" ", "1", " ">>, <<"a", "1">>, <<"N">>, <<"a", "U">>}

\* a subtree that is one path of the given length, x at its end
Chain(len, x) ==
  [i \in 1..len |-> TreeNode(IF i = len THEN x ELSE <<"a">>, i - 1)]

\* a subtree of two children, the first with a child of its own
Fork(x) == <<TreeNode(<<"a">>, 0), TreeNode(<<"a">>, 1), TreeNode(x, 0)>>

Subtrees ==
  {Chain(len, x) : len \in 0..MaxTreeDepth, x \in BadgeNames}
    \cup {Fork(x) : x \in BadgeNames}

ApplyIsUnread ==
  /\ pin.fn = "is_unread"
  /\ ~pout.done
  /\ pout' = Value(IsSessionItemUnread(
                     SessionItem(pin.name, DescendantNames(pin.tree), <<>>)))
  /\ UNCHANGED <<clock, horizon, faults, uiVars, lockVars, scanVars, dedupVars,
                 cmdVars, ghostVars, sideVars, pin, stopVars>>

\* everything but the function's argument
InitPureRest ==
  /\ InitCommon
  /\ QuietDesk
  /\ java_retry_max = java_retry_max_default
  /\ ReporterIdle /\ PollerIdle /\ HttpIdle /\ WindowIdle
  /\ Running
  /\ pout = NoValue

InitIsUnread ==
  /\ InitPureRest
  /\ \E n \in OwnNames, t \in Subtrees :
       pin = [fn |-> "is_unread", name |-> n, tree |-> t]

NextIsUnread == ApplyIsUnread

SpecIsUnread == InitIsUnread /\ [][NextIsUnread]_vars

\* --------------------- normalization of one display name at a time
NameChars == {"a", "1", " ", "N", "U"}

\* contact names: no line break, no white space at either end
ContactNames ==
  {c \in UNION {[1..k -> NameChars] : k \in 1..MaxNameLen} :
     ~IsSpace(c[1]) /\ ~IsSpace(c[Len(c)])}

\* the unread suffixes: a count and the new-message text, together or a
\* blank apart, and the unread text
UnreadSuffixes == {<<"1", "N">>, <<"1", "1", "N">>, <<"1", " ", "N">>, <<"U">>}

\* what stands between the name and the suffix: nothing, white space, or a
\* line break
Separators == {<<>>, <<" ">>, <<" ", " ">>, <<"/">>}

ApplyNormalize ==
  /\ pin.fn = "normalize"
  /\ ~pout.done
  /\ pout' = Value(NormalizeContactName(pin.contact \o pin.sep \o pin.suffix))
  /\ UNCHANGED <<clock, horizon, faults, uiVars, lockVars, scanVars, dedupVars,
                 cmdVars, ghostVars, sideVars, pin, stopVars>>

InitNormalize ==
  /\ InitPureRest
  /\ \E c \in ContactNames, sep \in Separators, suffix \in UnreadSuffixes :
       pin = [fn |-> "normalize", contact |-> c, sep |-> sep, suffix |-> suffix]

NextNormalize == ApplyNormalize

SpecNormalize == InitNormalize /\ [][NextNormalize]_vars

\* ----------------------- the signatures of two messages, one after the other
\* contact names and texts, with and without the character that
\* _fetch_and_report puts between the fields
SigContacts == {<<"a">>, <<"a", "|", "b">>}

SigContents == {<<"b">>, <<"b", "|", "b">>}

SigMessages ==
  {[MkMsg(c, t, id) EXCEPT !.is_self = self] :
     c \in SigContacts, t \in SigContents, id \in {NoId, "1", "2"}, self \in BOOLEAN}

\* lines 1462-1472 for a list of two messages and an empty signature set:
\* the two signatures, and whether the second message gets past the test
ApplySignature ==
  /\ pin.fn = "signature"
  /\ ~pout.done
  /\ LET sig1 == MessageSig(pin.first)
         sig2 == MessageSig(pin.second)
     IN  pout' = Value([sig1 |-> sig1, sig2 |-> sig2,
                        emitted |-> ~AlreadyProcessed(sig2, RecordSig(sig1, {}))])
  /\ UNCHANGED <<clock, horizon, faults, uiVars, lockVars, scanVars, dedupVars,
                 cmdVars, ghostVars, sideVars, pin, stopVars>>

InitSignature ==
  /\ InitPureRest
  /\ \E m1, m2 \in SigMessages :
       pin = [fn |-> "signature", first |-> m1, second |-> m2]

NextSignature == ApplySignature

SpecSignature == InitSignature /\ [][NextSignature]_vars

\* ------------- a display name normalized on its way to a message
\* every text a title can be: contact characters and line breaks
DisplayNames == UNION {[1..k -> NameChars \cup {"/"}] : k \in 0..MaxNameLen}

\* the title is normalized by process_cycle (line 1421), the result by
\* _fetch_and_report (line 1458), and that by extract_latest_messages
\* (line 1213), which hands it to the messages as their contact
ApplyNormalizeChain ==
  /\ pin.fn = "normalize_chain"
  /\ ~pout.done
  /\ LET current_contact == NormalizeContactName(pin.title)
         contact_hint == NormalizeContactName(current_contact)
         normalized_contact == NormalizeContactName(contact_hint)
     IN  pout' = Value([cycle |-> current_contact, fetch |-> contact_hint,
                        extract |-> normalized_contact])
  /\ UNCHANGED <<clock, horizon, faults, uiVars, lockVars, scanVars, dedupVars,
                 cmdVars, ghostVars, sideVars, pin, stopVars>>

InitNormalizeChain ==
  /\ InitPureRest
  /\ \E x \in DisplayNames : pin = [fn |-> "normalize_chain", title |-> x]

NextNormalizeChain == ApplyNormalizeChain

SpecNormalizeChain == InitNormalizeChain /\ [][NextNormalizeChain]_vars

\* --------------------------- the traversal of one subtree at a time
\* every subtree of n nodes: each node below the root or below a node
\* before it, and able or not to list its children
TreesOf(n) ==
  {[i \in 1..n |-> IF r[i] THEN ClosedNode(<<"a">>, par[i]) ELSE TreeNode(<<"a">>, par[i])] :
     par \in {f \in [1..n -> 0..(n - 1)] : \A i \in 1..n : f[i] < i},
     r \in [1..n -> BOOLEAN]}

ApplyIterDescendants ==
  /\ pin.fn = "iter_descendants"
  /\ ~pout.done
  /\ pout' = Value(IterDescendants(pin.tree, pin.max_depth))
  /\ UNCHANGED <<clock, horizon, faults, uiVars, lockVars, scanVars, dedupVars,
                 cmdVars, ghostVars, sideVars, pin, stopVars>>

InitDescend ==
  /\ InitPureRest
  /\ \E n \in 0..MaxTreeNodes, d \in -1..(MaxTreeNodes + 1) :
       \E t \in TreesOf(n) :
         pin = [fn |-> "iter_descendants", tree |-> t, max_depth |-> d]

NextDescend == ApplyIterDescendants

SpecDescend == InitDescend /\ [][NextDescend]_vars

\* ------------------------ the extraction of one message item at a time
\* Names of an item and of its descendants: none, blank, a text, a clock
\* time, and the three kinds of date
ItemTexts ==
  {<<>>, <<" ">>, <<"a">>, <<"1", ":", "1", "1">>, <<"Y", " ", "a">>, <<"W">>,
   <<"D", "1">>}

ApplyExtractItem ==
  /\ pin.fn = "extract_item"
  /\ ~pout.done
  /\ pout' = Value(ExtractMessageFromItem(<<"a">>, pin.item))
  /\ UNCHANGED <<clock, horizon, faults, uiVars, lockVars, scanVars, dedupVars,
                 cmdVars, ghostVars, sideVars, pin, stopVars>>

InitExtractItem ==
  /\ InitPureRest
  /\ \E name \in ItemTexts, cls \in {"ChatTextItemView", "ChatBubbleItemView"},
        sub \in UNION {[1..k -> ItemTexts] : k \in 0..MaxDescendants} :
       pin = [fn |-> "extract_item", item |-> MsgItem(name, cls, sub, "1", 3, 0)]

NextExtractItem == ApplyExtractItem

SpecExtractItem == InitExtractItem /\ [][NextExtractItem]_vars

\* ----------------------------- one extraction pass over a message list
\* The text of the item at place i, each place with a text of its own
NthText(i) == [k \in 1..i |-> "a"]

\* Message lists: at each place a text of the other side or a time separator
MessageLists ==
  UNION {{[i \in 1..n |-> IF i \in texts THEN OtherText(NthText(i), "1") ELSE TimeItem] :
            texts \in SUBSET (1..n)} : n \in 0..MaxItems}

\* Values of message_scan_limit
ScanLimits == {-1, 0, 3, 5, 6}

ApplyExtractLatest ==
  /\ pin.fn = "extract_latest"
  /\ ~pout.done
  /\ pout' = Value(ExtractLatestMessages(<<"a">>, <<"a">>, pin.items, pin.limit))
  /\ UNCHANGED <<clock, horizon, faults, uiVars, lockVars, scanVars, dedupVars,
                 cmdVars, ghostVars, sideVars, pin, stopVars>>

InitExtractLatest ==
  /\ InitPureRest
  /\ \E items \in MessageLists, limit \in ScanLimits :
       pin = [fn |-> "extract_latest", items |-> items, limit |-> limit]

NextExtractLatest == ApplyExtractLatest

SpecExtractLatest == InitExtractLatest /\ [][NextExtractLatest]_vars

\* ------------ the tests on size and place of the two list locators
\* _locate_session_list line 706 and line 710
session_min_width == 160
session_min_height == 200
session_max_left == 280
\* _locate_message_list line 785 and line 789
message_min_width == 200
message_min_height == 200
message_min_left == 180

\* _rect_to_bbox: no box for a rectangle without width or height
RectToBbox(rect) ==
  IF rect.right <= rect.left \/ rect.bottom <= rect.top THEN NoValue
  ELSE Value(rect)

\* _locate_session_list lines 696-722: the control becomes a candidate;
\* items: a ListItemControl exists within two levels below it
SessionListAccepts(ctrl) ==
  LET bbox == RectToBbox(ctrl.rect)
      width == ctrl.rect.right - ctrl.rect.left
      height == ctrl.rect.bottom - ctrl.rect.top
  IN  /\ ctrl.ct \in {"ListControl", "PaneControl"}
      /\ bbox.done
      /\ ~(width < session_min_width \/ height < session_min_height)
      /\ ~(ctrl.rect.left > session_max_left)
      /\ ctrl.items

\* _locate_message_list lines 770-792: the control becomes a candidate
MessageListAccepts(ctrl) ==
  LET bbox == RectToBbox(ctrl.rect)
      width == ctrl.rect.right - ctrl.rect.left
      height == ctrl.rect.bottom - ctrl.rect.top
  IN  /\ ctrl.ct \in {"ListControl", "PaneControl"}
      /\ bbox.done
      /\ ~(width < message_min_width \/ height < message_min_height)
      /\ ~(ctrl.rect.left < message_min_left)

\* Controls: a kind, a rectangle whose left edge and size lie on either side
\* of each threshold, with or without list items below
Lefts == {0, message_min_left - 1, message_min_left, message_min_left + MaxNudge,
          session_max_left, session_max_left + 1}

Widths == {0, session_min_width - 1, session_min_width, message_min_width - 1,
           message_min_width, message_min_width + MaxNudge}

Heights == {0, session_min_height - 1, session_min_height}

ApplyFilters ==
  /\ pin.fn = "filters"
  /\ ~pout.done
  /\ pout' = Value([session |-> SessionListAccepts(pin.ctrl),
                    message |-> MessageListAccepts(pin.ctrl)])
  /\ UNCHANGED <<clock, horizon, faults, uiVars, lockVars, scanVars, dedupVars,
                 cmdVars, ghostVars, sideVars, pin, stopVars>>

InitFilters ==
  /\ InitPureRest
  /\ \E ct \in {"ListControl", "PaneControl", "GroupControl"}, items \in BOOLEAN,
        left \in Lefts, width \in Widths, height \in Heights :
       pin = [fn |-> "filters",
              ctrl |-> [ct |-> ct, items |-> items,
                        rect |-> [left |-> left, top |-> 0, right |-> left + width,
                                  bottom |-> height]]]

NextFilters == ApplyFilters

SpecFilters == InitFilters /\ [][NextFilters]_vars

\* ================================================================ claims
\* positions at which a command thread is inside set_text_and_send's gated
\* block, working on the accessibility tree
CmdInTree == {"c_win", "c_ensure", "c_click", "c_verify", "c_input", "c_paste", "c_send"}

\* the threads that are inside an accessibility operation
InTree ==
  (IF pc \in ScanInTree THEN {ScanT} ELSE {}) \cup {c \in Cmds : cpc[c] \in CmdInTree}

\* C1: every read of the accessibility tree and every simulated interaction
\* runs while its thread holds the InteractionGate, so no two accessibility
\* operations overlap.
C1_GateHeldInTree ==
  /\ \A t \in InTree : lockOwner = t
  /\ Cardinality(InTree) <= 1

\* C2: no dispatcher click falls between the moment a scan selects a chat and
\* the moment it extracts that chat's messages, so every message labelled with
\* contact C was extracted while C was the active chat.
C2_NoSwitchBeforeExtract ==
  /\ ~gs.fetchIntr
  /\ pc = "f_loop" =>
       \A i \in 1..Len(messages) :
         messages[i].contact = NormalizeContactName(gs.fetchSrc)

\* C3: from the verification of the target chat to the send action the
\* command thread owns the gate, no other thread clicks, and the chat the text
\* is sent from is the chat that was verified.
C3_VerifiedUntilSend ==
  \A c \in Cmds :
    /\ ~intruded[c]
    /\ c \in Verified => lockOwner = c /\ TitleHasTarget(activeChat, ctarget[c])
    /\ cresult[c].ret = "true" => TitleHasTarget(cresult[c].chat, ctarget[c])

\* C3 witness: a command is about to send while the scheduler waits for the
\* gate in order to click an unread entry
C3_Witness == \E c \in Cmds : cpc[c] = "c_send" /\ pc = "u_click"

\* C4: between two clears of the signature set no signature is emitted twice:
\* a step that enqueues a message does so for both consumers, with a
\* signature not emitted since the last clear, and a message whose signature
\* is recorded is passed over, by the active-chat scan and the unread scan.
C4_RecordedNeverReemitted ==
  [][/\ (pollQ' # pollQ \/ reportQ' # reportQ) =>
          /\ pc = "f_loop" /\ mi <= Len(messages)
          /\ pollQ' = Append(pollQ, messages[mi])
          /\ reportQ' = Append(reportQ, messages[mi])
          /\ MessageSig(messages[mi]) \notin gs.epoch
     /\ (pc = "f_loop" /\ mi <= Len(messages)
           /\ MessageSig(messages[mi]) \in processed_sigs) =>
          (pollQ' = pollQ /\ reportQ' = reportQ)]_vars

\* C4 witness: the unread scan meets a message the active-chat scan emitted
\* in an earlier cycle, its signature still recorded
C4_Witness ==
  /\ pc = "f_loop" /\ fetchRet = "u_item" /\ mi <= Len(messages)
  /\ MessageSig(messages[mi]) \in processed_sigs
  /\ \E i \in 1..Len(pollQ) : MessageSig(pollQ[i]) = MessageSig(messages[mi])
  /\ gs.clears = 0

\* C5: the signature set never holds more than 2000 entries; a step changes
\* it either by adding one signature or by emptying it, and it is emptied
\* exactly by the insertion into a set of 2000.
C5_ClearedWholesaleAbove2000 ==
  [][/\ Cardinality(processed_sigs') <= processed_sigs_limit
     /\ processed_sigs' # processed_sigs =>
          \/ /\ processed_sigs' = {}
             /\ Cardinality(processed_sigs) = processed_sigs_limit
          \/ /\ processed_sigs \subseteq processed_sigs'
             /\ Cardinality(processed_sigs') = Cardinality(processed_sigs) + 1]_vars

\* C5 witness: the set was emptied and is filling again
C5_Witness == gs.clears >= 1 /\ processed_sigs # {}

\* C6: of the messages one extraction returns only the last can carry
\* trigger_reply, and it carries it iff it is not the user's own.
C6_OnlyLastTriggersReply ==
  pc = "f_loop" /\ messages # <<>> =>
    /\ \A i \in 1..(Len(messages) - 1) : ~messages[i].trigger_reply
    /\ messages[Len(messages)].trigger_reply <=> ~messages[Len(messages)].is_self

\* C6 witness: an extraction whose last message is the user's own, after one
\* of the partner
C6_Witness ==
  /\ pc = "f_loop" /\ Len(messages) >= 2
  /\ messages[Len(messages)].is_self
  /\ ~messages[1].is_self

\* positions of the unread scan (step 2 of process_cycle)
InUnreadScan ==
  \/ pc \in {"u_find", "u_find_in", "u_item", "u_click", "u_click_in", "u_title",
             "u_title_win", "u_title_rd", "u_sleep", "u_reset"}
  \/ pc \in {"fetch", "f_lock", "f_in", "f_loop"} /\ fetchRet = "u_item"

\* C7: in every cycle the active-chat scan comes first, the unread scan is
\* performed iff now >= nextUnreadScanTime for that cycle, and a cycle with
\* now < nextUnreadScanTime clicks no session item.
C7_ActiveFirstUnreadIffDue ==
  /\ InUnreadScan => gs.active /\ now >= gs.cycNext
  /\ pc = "cycle_end" => (gs.unreadScan <=> now >= gs.cycNext)
  /\ now < gs.cycNext => gs.clicked = <<>> /\ ~gs.unreadScan

\* C7 witness: a cycle in which the scan was due has clicked an entry and ended
C7_Witness ==
  pc = "cycle_end" /\ gs.active /\ gs.unreadScan /\ Len(gs.clicked) >= 1

\* C8: after an unread-scan pass nextUnreadScanTime is the time at which the
\* pass finished plus a delay of at least the configured minimum interval.
C8_ResetCountsFromPassEnd ==
  pc = "cycle_end" /\ gs.reset =>
    next_unread_scan_time >= gs.passEnd + unread_scan_interval_min_seconds

\* every position of the scan loop; "crashed" (the exception left
\* process_cycle and ended the loop of main) is not one of them
LoopPositions ==
  {"cycle", "a_win", "a_win_in", "a_title", "a_title_rd", "fetch", "f_lock",
   "f_in", "f_loop", "u_check", "u_find", "u_find_in", "u_item", "u_click",
   "u_click_in", "u_title", "u_title_win", "u_title_rd", "u_sleep", "u_reset",
   "cycle_end"}

\* C9: whatever the UI operations of a cycle do, process_cycle returns
\* normally, and main then sleeps and runs the next cycle.
C9_LoopSurvivesFailures ==
  /\ [](pc \in LoopPositions)
  /\ [][pc = "cycle_end" => pc' = "cycle"]_pc

\* C9 witness: a new cycle is running after one in which an operation raised
C9_Witness == gs.everRaised /\ ~gs.raised /\ pc = "a_title_rd"

\* indices of the entries of the session list the unread test accepts
UnreadIn(children, n) ==
  {i \in 1..Min(Len(children), n) : IsSessionItemUnread(children[i])}

\* the first k indices of a set of list positions, as a set
FirstOf(S, k) == {i \in S : Cardinality({j \in S : j < i}) < k}

C11_StopsAtFirst2xx ==
  \A n \in 1..Len(rhist) :
    rhist[n].ok =>
      /\ rhist[n].afterOk = 0
      /\ rhist[n].attempts = rhist[n].fails + 1
      /\ rhist[n].done

\* C11 witness: 503, 503, 200 under java_retry_max = 3: three attempts
C11_Witness ==
  /\ java_retry_max = 3
  /\ \E n \in 1..Len(rhist) :
       rhist[n].ok /\ rhist[n].fails = 2 /\ rhist[n].attempts = 3 /\ rhist[n].done

\* C12 as stated: no payload gets more than java_retry_max attempts.
C12_AttemptsWithinRetryMax ==
  \A n \in 1..Len(rhist) : rhist[n].attempts <= java_retry_max

\* C12 amended: no payload gets more than java_retry_max + 1 attempts, the
\* first one and java_retry_max retries.
C12_AttemptsWithinRetryMaxPlusOne ==
  \A n \in 1..Len(rhist) : rhist[n].attempts <= java_retry_max + 1

\* C12 witness: every attempt failed and the budget was used up
C12_Witness ==
  \E n \in 1..Len(rhist) :
    rhist[n].done /\ ~rhist[n].ok /\ rhist[n].attempts = java_retry_max + 1

\* C13: a payload whose attempts all failed is gone once post_message has
\* returned: it is not on the queue, no attempt is made for it afterwards,
\* and the reporter is waiting for, or delivering, another payload.
C13_ExhaustedIsDropped ==
  \A n \in 1..Len(rhist) :
    rhist[n].done /\ ~rhist[n].ok =>
      /\ rhist[n].late = 0
      /\ \A i \in 1..Len(reportQ) : reportQ[i] # Payload(n)
      /\ rpc \in {"r_top", "r_get"} \/ rpayload # Payload(n)
      /\ rpc \in {"r_top", "r_get", "r_post", "r_backoff"}

\* C13 witness: the first payload was dropped and the second is answered 2xx
C13_Witness ==
  /\ Len(rhist) >= 2
  /\ rhist[1].done /\ ~rhist[1].ok
  /\ rhist[2].ok

\* the payloads a poll call holds: taken so far, or returned
Held(p) == IF ppc[p] = "p_done" THEN preturned[p] ELSE pmsgs[p]

\* how often the n-th enqueued payload occurs in a sequence
Occurrences(q, n) ==
  Cardinality({i \in 1..Len(q) : q[i] = MkMsg(<<"a">>, <<"a">>, ToString(n))})

\* the sequence lists payloads in the order they were enqueued
InEnqueueOrder(q) ==
  \A i, j \in 1..Len(q) :
    i < j => \E m, n \in 1..enqueued :
               /\ m < n
               /\ q[i] = MkMsg(<<"a">>, <<"a">>, ToString(m))
               /\ q[j] = MkMsg(<<"a">>, <<"a">>, ToString(n))

\* C14: every enqueued payload is in the buffer or held by exactly one poll
\* call, exactly once; each call holds its payloads in enqueue order; a call
\* returns only when it finds the buffer empty, the empty list exactly when
\* its first wait timed out, otherwise the first message and all it drained.
C14_PollDrainsExactlyOnce ==
  /\ [](/\ \A n \in 1..enqueued :
             Occurrences(pollQ, n)
               + Cardinality({p \in Polls : Occurrences(Held(p), n) = 1}) = 1
        /\ \A n \in 1..enqueued, p \in Polls : Occurrences(Held(p), n) <= 1
        /\ InEnqueueOrder(pollQ)
        /\ \A p \in Polls : InEnqueueOrder(Held(p)))
  /\ [][\A p \in Polls :
          ppc[p] # "p_done" /\ ppc'[p] = "p_done" =>
            /\ pollQ = <<>>
            /\ preturned'[p] = pmsgs[p]
            /\ (preturned'[p] = <<>>) <=> (ppc[p] = "p_wait")]_vars

\* C14 witness: two poll calls returned, sharing what was enqueued between
\* them, one of them with two messages
C14_Witness ==
  /\ \A p \in Polls : ppc[p] = "p_done" /\ preturned[p] # <<>>
  /\ \E p \in Polls : Len(preturned[p]) >= 2
  /\ pollQ = <<>>

\* the request is one the transport boundary has to reject: no body, a body
\* that is not a JSON object, or an object without a non-blank target
Malformed(req) ==
  \/ req.length <= 0
  \/ req.json # "object"
  \/ ~req.has_target
  \/ \A i \in 1..Len(req.target) : req.target[i] = " "

\* C15: every POST /command gets exactly one response: 400 and no call of
\* the dispatcher for a malformed request, otherwise one call of the
\* dispatcher and 200 with its result, or 500.
C15_OneResponsePerCommand ==
  \A i \in 1..Len(hlog) :
    /\ Len(hlog[i].responses) = 1
    /\ IF Malformed(hlog[i].req)
       THEN hlog[i].responses[1].status = 400 /\ hlog[i].dispatched = 0
       ELSE hlog[i].responses[1].status \in {200, 500} /\ hlog[i].dispatched = 1

\* C19: a request returns the cached handle only when the liveness check it
\* made passed; when the check fails or raises the lookup runs again, the
\* handle that failed is neither returned nor kept, and the cache then holds
\* what the lookup found, or nothing.
C19_CacheReusedOnlyWhenLive ==
  wlast.req =>
    /\ cached_main = wlast.returned
    /\ ~wlast.resolved =>
         /\ wlast.before # NoHandle
         /\ wlast.check = "true"
         /\ wlast.returned = wlast.before
    /\ wlast.check \in {"false", "raise"} =>
         /\ wlast.resolved
         /\ wlast.returned # wlast.before
         /\ wlast.returned = wlast.fresh

\* C19 witness: the cached window was closed and another opened; the request
\* found the check failing and cached the new window
C19_Witness ==
  /\ wlast.req /\ wlast.check = "false"
  /\ wlast.before # NoHandle
  /\ wlast.returned # NoHandle
  /\ cached_main.id # wlast.before.id

\* C20: a request made while the window reports hung makes no UIA call,
\* enumerates no children and returns no window.
C20_HungWindowNotTouched ==
  wlast.req /\ wlast.hung =>
    /\ wlast.uia = 0
    /\ ~wlast.enumerated
    /\ wlast.returned = NoHandle

\* C16: set_text_and_send returns a boolean whatever the UI operations do.
C16_DispatcherNeverRaises ==
  \A c \in Cmds : cresult[c].ret \in {"none", "true", "false"}

\* C17: text is pasted only into a chat whose normalized title contains the
\* normalized target, after the dispatcher verified it; a send action is made
\* only after the paste; a call that ends before or in the paste does not
\* return true and has made no send action.
C17_SendOnlyAfterVerification ==
  \A c \in Cmds :
    /\ csent[c].pasted =>
         /\ csent[c].verified
         /\ NormalizeContactName(csent[c].chat) # <<>>
         /\ NormalizeContactName(ctarget[c]) # <<>>
         /\ Contains(NormalizeContactName(csent[c].chat),
                     NormalizeContactName(ctarget[c]))
    /\ ~csent[c].pasted =>
         /\ csent[c].clicks = 0 /\ csent[c].enters = 0
         /\ cresult[c].ret # "true"

\* C17 witness: the entry was clicked, the chat that opened is not the target
\* and the call returned false, nothing typed
C17_Witness ==
  \E c \in Cmds :
    /\ cpc[c] = "c_done" /\ cresult[c].ret = "false"
    /\ cbest[c] # 0
    /\ ~csent[c].verified /\ ~csent[c].pasted
    /\ activeChat # ctarget[c]

\* C18: after the paste, a button that is found and whose click succeeds
\* gives true with one click and no Enter; with no button, or a click that
\* raises, Enter is injected once and the result is true iff it succeeds.
C18_EnterWhenButtonFails ==
  \A c \in Cmds :
    cpc[c] = "c_done" /\ csent[c].pasted =>
      /\ csent[c].btn = "found" /\ csent[c].click = "ok" =>
           /\ cresult[c].ret = "true"
           /\ csent[c].clicks = 1 /\ csent[c].enters = 0
      /\ csent[c].btn = "none" \/ csent[c].click = "raise" =>
           /\ csent[c].enters = 1
           /\ csent[c].clicks = (IF csent[c].btn = "found" THEN 1 ELSE 0)
           /\ (cresult[c].ret = "true") <=> (csent[c].enter = "ok")
           /\ cresult[c].ret \in {"true", "false"}

\* C18 witness: no send button was found and Enter sent the text
C18_Witness ==
  \E c \in Cmds :
    /\ cpc[c] = "c_done" /\ csent[c].pasted
    /\ csent[c].btn = "none" /\ csent[c].enter = "ok"
    /\ cresult[c].ret = "true"

\* C21: a request whose lookup ran returns the first match in the order
\* native handle, desktop search, per-process search, or nothing when all
\* three found nothing; and the window a request returns, from the lookup or
\* from the cache, is not one the hung test reports hung.
C21_FirstLiveMatchNeverHung ==
  wlast.req =>
    /\ wlast.resolved =>
         wlast.fresh.via \in {"handle", "global", "pid", "pid_loose", "none"}
    /\ wlast.returned # NoHandle => ~wlast.hung

\* the depth of node i below the item
RECURSIVE DepthOf(_, _)
DepthOf(tree, i) ==
  IF tree[i].parent = 0 THEN 1 ELSE 1 + DepthOf(tree, tree[i].parent)

\* a name that is a number, or has the new-message or the unread text in it
NumericOrMarked(s) ==
  IsNumeric(Strip(s)) \/ Contains(s, <<"N">>) \/ Contains(s, <<"U">>)

\* C22 as stated: the unread test is true exactly when the item's own name,
\* or the name of a descendant at depth 5 or less, is a number or carries
\* the new-message or the unread text.
C22_UnreadIffNameOrDescendantMarked ==
  pin.fn = "is_unread" /\ pout.done =>
    pout.value =
      \/ NumericOrMarked(pin.name)
      \/ \E i \in 1..Len(pin.tree) :
           /\ DepthOf(pin.tree, i) <= 5
           /\ NumericOrMarked(pin.tree[i].name)

\* C22: the unread test is true exactly when the item's own name has a count
\* directly followed by the new-message text, or the unread text, or when a
\* descendant at depth 5 or less has a name that is a number once trimmed or
\* has the new-message or the unread text in it; a number as the item's own
\* name is no sign.
C22_UnreadIffOwnMarkerOrBadge ==
  pin.fn = "is_unread" /\ pout.done =>
    pout.value =
      \/ Contains(pin.name, <<"U">>)
      \/ \E j \in 1..(Len(pin.name) - 1) : IsDigit(pin.name[j]) /\ pin.name[j + 1] = "N"
      \/ \E i \in 1..Len(pin.tree) :
           /\ DepthOf(pin.tree, i) <= 5
           /\ NumericOrMarked(pin.tree[i].name)

\* C22 witness: a numeric badge five levels below an item with a plain name
C22_Witness ==
  /\ pin.fn = "is_unread" /\ pout.done /\ pout.value
  /\ pin.name = <<"a">>
  /\ Len(pin.tree) = 5
  /\ pin.tree[5] = TreeNode(<<"1">>, 4)

\* the name ends in an unread suffix of its own
EndsInSuffix(c) == StripUnreadSuffix(c) # c

\* C23 as stated: a contact name followed by an unread suffix, on the same
\* or the following line, normalizes to the contact name with its white
\* space collapsed.
C23_SuffixRemovedFromEveryName ==
  pin.fn = "normalize" /\ pout.done => pout.value = CollapseWs(pin.contact)

\* C23: a contact name followed by an unread suffix normalizes to the contact
\* name with its white space collapsed, unless a count follows directly a
\* name that ends in a digit, or the suffix is on the following line and the
\* name ends in an unread suffix of its own.
C23_SuffixRemovedUnlessNameEndsAlike ==
  /\ pin.fn = "normalize" /\ pout.done
  /\ ~(pin.sep = <<>> /\ pin.suffix # <<"U">> /\ IsDigit(pin.contact[Len(pin.contact)]))
  /\ ~(pin.sep = <<"/">> /\ EndsInSuffix(pin.contact))
  => pout.value = CollapseWs(pin.contact)

\* C23 witness: a name with a run of blanks inside, the count a blank away
C23_Witness ==
  /\ pin.fn = "normalize" /\ pout.done
  /\ pin.contact = <<"a", " ", " ", "a">>
  /\ pin.sep = <<" ">>
  /\ pin.suffix = <<"1", "N">>
  /\ pout.value = <<"a", " ", "a">>

\* C24: once the interrupt has been sent the main loop is over: the
\* scheduler stands still, the reporter has been told to stop and the
\* command server has been shut down.
C24_InterruptStopsMain ==
  sigint.sent => pc = "stopped" /\ stopping /\ ~server_up

\* C25: when _fetch_and_report looks at a message, one whose signature is
\* recorded leaves both queues as they are, and any other is put once at the
\* end of the poll queue and once at the end of the reporter's queue; the two
\* queues gain the same messages in the same order.
C25_BothQueuesOnceSameOrder ==
  [][pc = "f_loop" /\ mi <= Len(messages) =>
       LET msg == messages[mi]
       IN  /\ IF MessageSig(msg) \in processed_sigs
              THEN pollQ' = pollQ /\ reportQ' = reportQ
              ELSE pollQ' = pollQ \o <<msg>> /\ reportQ' = reportQ \o <<msg>>
           /\ pollQ = reportQ => pollQ' = reportQ']_vars

\* C25 witness: two different messages went out to both queues; the list
\* just read holds one of them twice, and the queues hold it once
C25_Witness ==
  /\ Len(pollQ) >= 2
  /\ pollQ = reportQ
  /\ pollQ[1] # pollQ[2]
  /\ pc = "f_loop"
  /\ \E i, j \in 1..(mi - 1) :
       /\ i < j
       /\ j <= Len(messages)
       /\ messages[i] = messages[j]
       /\ Cardinality({k \in 1..Len(pollQ) : pollQ[k] = messages[i]}) = 1

\* C26: while the reporter is inside a delivery, in an attempt or in the
\* backoff sleep after one, no step of the scheduler that can wait has to:
\* the hand-over of the next message returns at once, the lock is there to
\* take, and the next cycle starts when its time has come.
C26_SchedulerRunsWhileReporterBusy ==
  rpc \in {"r_post", "r_backoff"} =>
    /\ pc = "f_loop" /\ mi <= Len(messages) => ENABLED FetchStep
    /\ pc \in DOMAIN ScanGated => ENABLED ScanAcquire
    /\ pc = "cycle" /\ clock <= horizon => ENABLED CycleStart

\* C26 witness: the scheduler has run all its cycles and handed over three
\* messages, and the reporter still sleeps after the first attempt for the
\* first of them
C26_Witness ==
  /\ rpc = "r_backoff"
  /\ Len(rhist) = 3
  /\ rhist[1].attempts = 1 /\ ~rhist[1].done
  /\ rpayload = rhist[1].payload
  /\ reportQ = <<rhist[2].payload, rhist[3].payload>>
  /\ pc = "cycle" /\ clock > horizon

\* C27: of two messages with native ids, equal content and different ids,
\* the second is emitted after the first; and of two messages without a
\* native id the second is held back as a duplicate exactly when contact,
\* content and isSelf of the two coincide.
C27_DuplicateIffKeyFieldsCoincide ==
  pin.fn = "signature" /\ pout.done =>
    LET m1 == pin.first
        m2 == pin.second
    IN  /\ m1.ui_id # NoId /\ m2.ui_id # NoId /\ m1.ui_id # m2.ui_id
             /\ m1.content = m2.content
           => pout.value.emitted
        /\ m1.ui_id = NoId /\ m2.ui_id = NoId
           => (~pout.value.emitted <=>
                 /\ m1.contact = m2.contact
                 /\ m1.content = m2.content
                 /\ m1.is_self = m2.is_self)

\* C28: the reporter works on one message at a time, in the order of
\* submission: a message has had an attempt only if post_message has
\* returned for every message submitted before it, and none of those gets an
\* attempt afterwards.
C28_OneMessageAtATimeInOrder ==
  \A n \in 1..Len(rhist) :
    rhist[n].attempts > 0 =>
      \A m \in 1..(n - 1) : rhist[m].done /\ rhist[m].late = 0

\* C28 witness: the first message took a retry and is done with, the second
\* is between two attempts
C28_Witness ==
  /\ Len(rhist) = 2
  /\ rhist[1].done /\ rhist[1].attempts >= 2
  /\ rhist[2].attempts = 1 /\ ~rhist[2].done
  /\ rpc = "r_backoff"
  /\ rpayload = rhist[2].payload

\* C29: once stop() has been called the reporter thread comes to its end,
\* from the wait on its queue as from a delivery in progress, and the empty
\* payload that stop() put on the queue is never handed to post_message.
C29_ReporterExitsAfterStop ==
  /\ [](rpc \in {"r_post", "r_backoff"} => rpayload # Poison)
  /\ (stopping ~> rpc = "r_exit")

\* C29 witness: the thread has ended after a delivery that stop() found in
\* progress; a message submitted before stop() is still on the queue, never
\* attempted, the empty payload behind it
C29_Witness ==
  /\ stopping
  /\ rpc = "r_exit"
  /\ Len(rhist) = 2
  /\ rhist[1].done /\ rhist[2].attempts = 0
  /\ reportQ = <<rhist[2].payload, Poison>>

\* C30: the lock is held exactly by a thread inside a gated call, as many
\* times as it has entered one: once in set_text_and_send, twice from the
\* click of ensure_chat_target to its verification; the nested calls find
\* the lock theirs to take; and a call that has returned or raised holds
\* nothing, so that the lock is free once no call is under way.
C30_GateReentrantAndReleased ==
  /\ lockOwner = NoOwner <=> lockDepth = 0
  /\ \A c \in Cmds :
       /\ cpc[c] \in {"c_idle", "c_lock", "c_done"} => lockOwner # c
       /\ cpc[c] \in {"c_win", "c_ensure", "c_input", "c_paste", "c_send"} =>
            lockOwner = c /\ lockDepth = 1
       /\ cpc[c] \in {"c_click", "c_verify"} => lockOwner = c /\ lockDepth = 2
       /\ cpc[c] = "c_ensure" => ENABLED CmdEnsure(c)
       /\ cpc[c] = "c_click" => ENABLED CmdClick(c)
  /\ (\A c \in Cmds : cpc[c] \in {"c_idle", "c_lock", "c_done"}) => lockOwner = NoOwner

\* C30 witness: a call raised between the click of ensure_chat_target and
\* its verification, the lock taken twice; it is free again
C30_Witness ==
  \E c \in Cmds :
    /\ cpc[c] = "c_done"
    /\ cresult[c].ret = "raised"
    /\ cbest[c] # 0
    /\ lockOwner = NoOwner /\ lockDepth = 0

\* C40: normalizing a normalized name changes nothing: what process_cycle
\* makes of a title is what _fetch_and_report and extract_latest_messages
\* make of it again.
C40_NormalizationIdempotent ==
  pin.fn = "normalize_chain" /\ pout.done =>
    /\ pout.value.fetch = pout.value.cycle
    /\ pout.value.extract = pout.value.fetch

\* an ancestor of node i below the root cannot list its children
RECURSIVE Hidden(_, _)
Hidden(tree, i) ==
  /\ tree[i].parent # 0
  /\ tree[tree[i].parent].raises \/ Hidden(tree, tree[i].parent)

\* the place of node i in a sequence of nodes that holds it, 0 for the root
PlaceIn(out, i) == IF i = 0 THEN 0 ELSE CHOOSE p \in 1..Len(out) : out[p] = i

\* C36: _iter_descendants yields nothing for max_depth <= 0; otherwise it
\* yields, each once, exactly the nodes at depth 1..max_depth that no node
\* with a failing child enumeration hides, level by level, the children of
\* one node in their order and after those of every node yielded before it.
C36_BreadthFirstDepthBounded ==
  pin.fn = "iter_descendants" /\ pout.done =>
    LET tree == pin.tree
        d == pin.max_depth
        out == pout.value
    IN  /\ d <= 0 => out = <<>>
        /\ {out[p] : p \in 1..Len(out)} =
             {i \in 1..Len(tree) : DepthOf(tree, i) <= d /\ ~Hidden(tree, i)}
        /\ \A p, q \in 1..Len(out) : p # q => out[p] # out[q]
        /\ \A p, q \in 1..Len(out) :
             p < q =>
               /\ DepthOf(tree, out[p]) <= DepthOf(tree, out[q])
               /\ tree[out[p]].parent = tree[out[q]].parent => out[p] < out[q]
               /\ PlaceIn(out, tree[out[p]].parent) <= PlaceIn(out, tree[out[q]].parent)

\* C36 witness: a node with two children and a grandchild under the first,
\* and a closed node with a child; depth 2: the grandchild comes last, the
\* child of the closed node not at all
C36_Witness ==
  /\ pin.fn = "iter_descendants" /\ pout.done
  /\ pin.max_depth = 2
  /\ pin.tree = <<TreeNode(<<"a">>, 0), TreeNode(<<"a">>, 1), ClosedNode(<<"a">>, 0),
                  TreeNode(<<"a">>, 3)>>
  /\ pout.value = <<1, 3, 2>>

\* C35: a message extracted from an item, from its own name or from a
\* descendant, has a content that is not empty and is neither a clock time
\* nor one of the dates.
C35_NoTimestampOrEmptyContent ==
  pin.fn = "extract_item" /\ pout.done /\ pout.value # NoMsg =>
    /\ pout.value.content # <<>>
    /\ ~IsTimestamp(pout.value.content)

\* The places of the list a pass with this limit examines: the last
\* max(5, limit) of them
Examined(items, limit) ==
  LET k == IF limit < 5 THEN 5 ELSE limit
  IN  {i \in 1..Len(items) : i > Len(items) - k}

\* The examined places that hold a text
TextPlaces(items, limit) ==
  {i \in Examined(items, limit) : items[i].cls = "ChatTextItemView"}

\* C34: a pass examines only the last max(5, message_scan_limit) children,
\* five of them even for a limit of zero or below, returns at most that many
\* messages, and returns them in the order of the screen.
C34_LastChildrenOnlyInScreenOrder ==
  pin.fn = "extract_latest" /\ pout.done =>
    LET places == TextPlaces(pin.items, pin.limit)
        out == pout.value
    IN  /\ Len(out) = Cardinality(places)
        /\ Len(out) <= (IF pin.limit < 5 THEN 5 ELSE pin.limit)
        /\ \A j \in 1..Len(out) :
             \E p \in places :
               /\ Cardinality({q \in places : q <= p}) = j
               /\ out[j].content = pin.items[p].name

C34_Witness ==
  /\ pin.fn = "extract_latest" /\ pout.done
  /\ pin.limit = 0
  /\ Len(pin.items) = MaxItems
  /\ pin.items[1].cls = "ChatTextItemView"
  /\ pin.items[2].cls = "ChatTextItemView"
  /\ Len(pout.value) = 5

\* How many of the messages put on the poll queue carry this signature
Emissions(sig) == Cardinality({i \in 1..Len(pollQ) : MessageSig(pollQ[i]) = sig})

\* C33 as stated: a message emitted before is emitted again only by a pass
\* after the one in which the set was cleared, never by the clearing pass
\* itself.
C33_ReemittedByNextPassOnly ==
  [][(pc = "f_loop" /\ mi <= Len(messages) /\ pollQ' # pollQ /\ gs.passClear) =>
       Emissions(MessageSig(messages[mi])) = 0]_vars

\* C33: the message whose insertion takes the set past 2000 is emitted by
\* that step on both queues and the set is left empty, without that message's
\* own signature; a message whose signature the set does not hold is emitted
\* and one whose signature it holds is not, so that after a clear each
\* signature is emitted once more, by the rest of the clearing pass or by a
\* later one, and not again before the following clear.
C33_ReemittedOnceAfterClear ==
  [][(pc = "f_loop" /\ mi <= Len(messages)) =>
       LET msg == messages[mi]
           sig == MessageSig(msg)
       IN  /\ (sig \notin processed_sigs
                 /\ Cardinality(processed_sigs) = processed_sigs_limit) =>
                (processed_sigs' = {} /\ gs'.clears = gs.clears + 1)
           /\ sig \notin processed_sigs =>
                (pollQ' = Append(pollQ, msg) /\ reportQ' = Append(reportQ, msg))
           /\ sig \in processed_sigs => (pollQ' = pollQ /\ reportQ' = reportQ)
           /\ \A i \in 1..Len(pollQ') :
                LET s == MessageSig(pollQ'[i])
                IN  Cardinality({j \in 1..Len(pollQ') : MessageSig(pollQ'[j]) = s})
                      <= gs'.clears + 1]_vars

\* C33 witness: a pass after the clearing one meets a message that was
\* emitted before the clear and once more after it, and suppresses it
C33_Witness ==
  /\ pc = "f_loop" /\ mi <= Len(messages)
  /\ gs.clears = 1 /\ ~gs.passClear
  /\ MessageSig(messages[mi]) \in processed_sigs
  /\ Emissions(MessageSig(messages[mi])) = 2

\* The places of the session list whose normalized name is the normalized
\* target or contains it
MatchingPlaces(target) ==
  LET t == NormalizeContactName(target)
  IN  {i \in 1..Len(sessions) :
         LET name == EntryName(sessions[i])
         IN  name # <<>> /\ (name = t \/ Contains(name, t))}

\* The normalized title holds the normalized target
TitleHolds(title, target) ==
  /\ NormalizeContactName(title) # <<>>
  /\ NormalizeContactName(target) # <<>>
  /\ Contains(NormalizeContactName(title), NormalizeContactName(target))

\* C32: a call of ensure_chat_target clicks at most one session entry: none
\* when the title already holds the target; otherwise the first entry in
\* list order whose normalized name is the target or contains it; it answers
\* true only when the title read after the click holds the target; with no
\* such entry it answers false and nothing is clicked.
C32_AtMostOneClickOnFirstMatch ==
  [][\A c \in Cmds :
       /\ csent'[c].switches <= 1
       /\ csent'[c].switches # csent[c].switches =>
            /\ cpc[c] = "c_click"
            /\ cbest[c] \in MatchingPlaces(ctarget[c])
            /\ \A j \in MatchingPlaces(ctarget[c]) : cbest[c] <= j
       /\ (cpc[c] = "c_ensure" /\ TitleHolds(activeChat, ctarget[c])) =>
            cpc'[c] # "c_click"
       /\ (cpc[c] = "c_ensure" /\ cpc'[c] = "c_click") =>
            /\ cbest'[c] \in MatchingPlaces(ctarget[c])
            /\ \A j \in MatchingPlaces(ctarget[c]) : cbest'[c] <= j
       /\ (cpc[c] = "c_ensure" /\ ~TitleHolds(activeChat, ctarget[c])
             /\ MatchingPlaces(ctarget[c]) = {} /\ cpc'[c] # "c_ensure") =>
            /\ cpc'[c] = "c_done" /\ cresult'[c].ret # "true"
            /\ csent'[c].switches = 0
       /\ (cpc[c] = "c_verify" /\ cpc'[c] = "c_input") =>
            TitleHolds(activeChat, ctarget[c])
       /\ (cpc[c] \in {"c_ensure", "c_verify"} /\ cpc'[c] = "c_input") =>
            csent'[c].verified
       /\ (cpc[c] = "c_verify" /\ ~TitleHolds(activeChat, ctarget[c])
             /\ cpc'[c] # "c_verify") =>
            cpc'[c] = "c_done" /\ cresult'[c].ret # "true"]_vars

\* C32 witness: two entries hold the target, the earlier one by containing
\* it and the later one by being it; the earlier one was clicked, once, and
\* the title read afterwards does not hold the target
C32_Witness ==
  \E c \in Cmds :
    /\ cpc[c] = "c_done" /\ cresult[c].ret = "false"
    /\ csent[c].switches = 1
    /\ Cardinality(MatchingPlaces(ctarget[c])) = 2
    /\ EntryName(sessions[cbest[c]]) # NormalizeContactName(ctarget[c])
    /\ ~TitleHolds(activeChat, ctarget[c])

\* The positions of the unread scan at which a UI operation can raise
UnreadOps == {"u_find_in", "u_click_in", "u_title_win", "u_title_rd"}

\* C39: next_unread_scan_time changes only by the assignment that ends a
\* completed unread-scan pass, reached when the loop over the unread entries
\* is over; a pass left by an exception leaves it as it was at the start of
\* the cycle, so that the scan is due again in the next cycle; a cycle that
\* skips the unread scan leaves it unchanged.
C39_ResetOnlyByCompletedPass ==
  [][/\ next_unread_scan_time' # next_unread_scan_time =>
          pc = "u_reset" /\ pc' = "cycle_end" /\ gs.unreadScan
     /\ (pc' = "u_reset" /\ pc # "u_reset") =>
          pc = "u_item" /\ ui > Len(unread)
     /\ (pc \in UnreadOps /\ pc' = "cycle_end") =>
          next_unread_scan_time' = gs.cycNext
     /\ (pc = "u_check" /\ now < next_unread_scan_time) =>
          pc' = "cycle_end" /\ next_unread_scan_time' = next_unread_scan_time
     /\ (pc = "cycle" /\ pc' # "cycle" /\ gs.unreadScan /\ ~gs.reset) =>
          /\ next_unread_scan_time' = gs.cycNext
          /\ now' >= next_unread_scan_time']_vars

\* C39 witness: a cycle whose unread scan was left by an exception is over,
\* the time of the next scan is what it was and has passed, and another
\* cycle is about to start
C39_Witness ==
  /\ pc = "cycle" /\ clock <= horizon
  /\ gs.unreadScan /\ ~gs.reset /\ gs.raised
  /\ Len(gs.clicked) >= 1
  /\ next_unread_scan_time = gs.cycNext
  /\ clock >= next_unread_scan_time

\* C38: a GET /health and a GET /poll never take the gate nor wait for it:
\* the step that answers /health and every step of poll leave the gate as it
\* is, and each of them can be taken whoever holds the gate.
C38_GetsNeverWaitForGate ==
  /\ [](/\ \A p \in Polls :
             /\ ppc[p] = "p_idle" => ENABLED PollStart(p)
             /\ ppc[p] = "p_wait" => ENABLED PollFirst(p)
             /\ ppc[p] = "p_drain" => ENABLED PollDrain(p)
        /\ Len(hlog) < MaxRequests => ENABLED HandleHealth)
  /\ [][(ppc' # ppc \/ hlog' # hlog) => UNCHANGED lockVars]_vars

\* C38 witness: /health was answered while the scheduler held the gate, and
\* a poll that has taken a message is going on while the scheduler is inside
\* the gate again
C38_Witness ==
  /\ lockOwner = ScanT /\ pc = "u_click_in"
  /\ \E i \in 1..Len(hlog) : hlog[i].req = "/health" /\ hlog[i].gate = ScanT
  /\ \E p \in Polls : ppc[p] = "p_drain" /\ pmsgs[p] # <<>>

\* C37: no control is accepted both as a candidate for the conversation list
\* and as a candidate for the message list.
C37_FiltersDisjoint ==
  pin.fn = "filters" /\ pout.done =>
    ~(pout.value.session /\ pout.value.message)

\* C31: a command that has entered set_text_and_send and waits for the gate
\* eventually holds it, and the call then comes to its end, with a result
\* for do_POST to answer with, while the scheduler goes on cycling.
C31_CommandEventuallyAnswered ==
  \A c \in Cmds :
    /\ (cpc[c] = "c_lock") ~> (cpc[c] = "c_win")
    /\ (cpc[c] = "c_lock") ~> (cpc[c] = "c_done" /\ cresult[c].ret # "none")

\* C31 witness: the command found the scheduler inside the gate
C31_Witness ==
  \E c \in Cmds : cpc[c] = "c_lock" /\ lockOwner = ScanT /\ pc = "u_click_in"

====
